---- MODULE Spec2Model ----
(***************************************************************************)
(* Model of the tool-calling agent of tool-calling-from-scratch/core:      *)
(* Agent.run (the auto-chaining loop), Agent._parse_response,              *)
(* Agent.execute_tool, Tool.execute, Agent.reset and the                   *)
(* ConversationLogger the agent writes to; of the single-shot agent.py; of *)
(* GeminiClient.generate_response (providers/gemini.py); and of the        *)
(* DrawBoundingBox tool (tools/draw_bounding_box.py).                      *)
(*                                                                         *)
(* Text is modelled as a sequence of atoms.  An atom is a chunk of         *)
(* characters: one punctuation character of JSON, one whitespace           *)
(* character, a JSON literal, a number, or a run of other characters.      *)
(* Strings of the program (message contents, raw model replies, tool       *)
(* names, error messages) are all such sequences, so concatenation,        *)
(* str.strip(), the brace regex and json.loads are computed on them.       *)
(***************************************************************************)
EXTENDS Integers, Sequences, FiniteSets, TLC

(***************************************************************************)
(* Atoms                                                                   *)
(***************************************************************************)
Q == "\""
SP == " "
NL == "\n"

\* str.isspace() for an atom
IsWs(a) == a \in {SP, NL}

\* the numbers that occur in the modelled texts, as atoms, and their values
NumAtoms == {"0", "5"}
NumVal(a) == IF a = "0" THEN 0 ELSE 5

(***************************************************************************)
(* str.strip()                                                             *)
(***************************************************************************)
RECURSIVE LStrip(_)
LStrip(t) ==
    IF t = <<>> THEN <<>>
    ELSE IF IsWs(Head(t)) THEN LStrip(Tail(t)) ELSE t

RECURSIVE RStrip(_)
RStrip(t) ==
    IF t = <<>> THEN <<>>
    ELSE IF IsWs(t[Len(t)]) THEN RStrip(SubSeq(t, 1, Len(t) - 1)) ELSE t

Strip(t) == RStrip(LStrip(t))

(***************************************************************************)
(* JSON values, as json.loads builds them.  Every value is a record of the *)
(* same shape; t tells which field carries the value.                      *)
(*   null, bool (b), num (n), str (s), arr (items), obj (keys, items)      *)
(***************************************************************************)
JBlank == [t |-> "null", b |-> FALSE, n |-> 0, s |-> <<>>, keys |-> <<>>, items |-> <<>>]
JNull == JBlank
JBool(x) == [JBlank EXCEPT !.t = "bool", !.b = x]
JNum(x) == [JBlank EXCEPT !.t = "num", !.n = x]
JStr(x) == [JBlank EXCEPT !.t = "str", !.s = x]
JArr(xs) == [JBlank EXCEPT !.t = "arr", !.items = xs]
JObj(ks, xs) == [JBlank EXCEPT !.t = "obj", !.keys = ks, !.items = xs]

\* a Python value that json.dumps rejects with TypeError (a set, bytes, an
\* object of a class); s is its str()
JOpaque(text) == [JBlank EXCEPT !.t = "opaque", !.s = text]

\* isinstance(v, dict)
IsDict(v) == v.t = "obj"

\* Python truthiness of a JSON value (the operand of `or`, `if` and bool())
Truthy(v) ==
    CASE v.t = "null" -> FALSE
      [] v.t = "bool" -> v.b
      [] v.t = "num" -> v.n # 0
      [] v.t = "str" -> v.s # <<>>
      [] OTHER -> v.items # <<>>

\* key in d
HasKey(d, k) == \E i \in 1..Len(d.keys) : d.keys[i] = k

\* d.get(k, default): a repeated key keeps its last value, as json.loads does
GetOr(d, k, default) ==
    IF HasKey(d, k)
    THEN d.items[CHOOSE i \in 1..Len(d.keys) :
                    /\ d.keys[i] = k
                    /\ \A j \in (i + 1)..Len(d.keys) : d.keys[j] # k]
    ELSE default

\* d.get(k)
Get(d, k) == GetOr(d, k, JNull)

\* a or b
PyOr(a, b) == IF Truthy(a) THEN a ELSE b

(***************************************************************************)
(* json.loads on a sequence of atoms: a recursive-descent reader.  Every   *)
(* reader returns [ok, val, next]: whether a value was read, the value,    *)
(* and the index of the atom after it.                                     *)
(***************************************************************************)
JFail == [ok |-> FALSE, val |-> JNull, next |-> 0]
JOk(v, i) == [ok |-> TRUE, val |-> v, next |-> i]

\* index of the first atom at or after i that is not whitespace
RECURSIVE SkipWs(_, _)
SkipWs(t, i) ==
    IF i <= Len(t) /\ IsWs(t[i]) THEN SkipWs(t, i + 1) ELSE i

\* index of the first quote at or after i, or 0
RECURSIVE FindQuote(_, _)
FindQuote(t, i) ==
    IF i > Len(t) THEN 0
    ELSE IF t[i] = Q THEN i ELSE FindQuote(t, i + 1)

\* F applied to the value of e, with e evaluated once
Bind(e, F(_)) == CHOOSE y \in { F(x) : x \in {e} } : TRUE

\* the escape sequence json writes a newline of a string as
EscNL == "\\n"

\* the characters of a string literal, decoded, and a string, encoded
Unescape(s) == [j \in 1..Len(s) |-> IF s[j] = EscNL THEN NL ELSE s[j]]
Escape(s) == [j \in 1..Len(s) |-> IF s[j] = NL THEN EscNL ELSE s[j]]

\* a string literal whose opening quote is at i - 1; a control character
\* inside it is an error
ReadString(t, i) ==
    Bind(FindQuote(t, i), LAMBDA k :
        IF k = 0 \/ \E j \in i..(k - 1) : t[j] = NL THEN JFail
        ELSE JOk(JStr(Unescape(SubSeq(t, i, k - 1))), k + 1))

\* the atom at j, or "" past the end
At(t, j) == IF j <= Len(t) THEN t[j] ELSE ""

RECURSIVE ReadValue(_, _)
RECURSIVE ReadElements(_, _, _)
RECURSIVE ReadMembers(_, _, _, _)

\* the elements of an array after "[" or ",", acc the ones read so far
ReadElements(t, i, acc) ==
    Bind(ReadValue(t, i), LAMBDA r :
        IF ~r.ok THEN JFail
        ELSE Bind(SkipWs(t, r.next), LAMBDA j :
            CASE At(t, j) = "," -> ReadElements(t, j + 1, Append(acc, r.val))
              [] At(t, j) = "]" -> JOk(JArr(Append(acc, r.val)), j + 1)
              [] OTHER -> JFail))

\* the value of a member whose key has been read, key = [ok, val, next]
ReadMemberValue(t, key) ==
    IF ~key.ok THEN JFail
    ELSE Bind(SkipWs(t, key.next), LAMBDA c :
            IF At(t, c) = ":" THEN ReadValue(t, c + 1) ELSE JFail)

\* the members of an object after "{" or ",", ks and vs the ones read so far
ReadMembers(t, i, ks, vs) ==
    Bind(SkipWs(t, i), LAMBDA j :
        IF At(t, j) # Q THEN JFail
        ELSE Bind(ReadString(t, j + 1), LAMBDA key :
            Bind(ReadMemberValue(t, key), LAMBDA r :
                IF ~r.ok THEN JFail
                ELSE Bind(SkipWs(t, r.next), LAMBDA e :
                    CASE At(t, e) = "," ->
                           ReadMembers(t, e + 1, Append(ks, key.val.s), Append(vs, r.val))
                      [] At(t, e) = "}" ->
                           JOk(JObj(Append(ks, key.val.s), Append(vs, r.val)), e + 1)
                      [] OTHER -> JFail))))

ReadValue(t, i) ==
    Bind(SkipWs(t, i), LAMBDA j :
        CASE At(t, j) = "{" ->
               Bind(SkipWs(t, j + 1), LAMBDA k :
                   IF At(t, k) = "}" THEN JOk(JObj(<<>>, <<>>), k + 1)
                   ELSE ReadMembers(t, j + 1, <<>>, <<>>))
          [] At(t, j) = "[" ->
               Bind(SkipWs(t, j + 1), LAMBDA k :
                   IF At(t, k) = "]" THEN JOk(JArr(<<>>), k + 1)
                   ELSE ReadElements(t, j + 1, <<>>))
          [] At(t, j) = Q -> ReadString(t, j + 1)
          [] At(t, j) = "true" -> JOk(JBool(TRUE), j + 1)
          [] At(t, j) = "false" -> JOk(JBool(FALSE), j + 1)
          [] At(t, j) = "null" -> JOk(JNull, j + 1)
          [] At(t, j) \in NumAtoms -> JOk(JNum(NumVal(t[j])), j + 1)
          [] OTHER -> JFail)

\* try_load_json(text): [ok, val]; ok = FALSE stands for the None it returns
\* when json.loads raises.  A JSON null loads as None as well.
try_load_json(t) ==
    Bind(ReadValue(t, 1), LAMBDA r :
        IF r.ok /\ SkipWs(t, r.next) > Len(t) /\ r.val.t # "null"
        THEN [ok |-> TRUE, val |-> r.val]
        ELSE [ok |-> FALSE, val |-> JNull])

(***************************************************************************)
(* re.search(r'\{[\s\S]*\}', text): the span from the first "{" to the     *)
(* last "}" after it; <<>> with found = FALSE when there is none.          *)
(***************************************************************************)
FirstIndex(t, a) ==
    IF \E i \in 1..Len(t) : t[i] = a
    THEN CHOOSE i \in 1..Len(t) : t[i] = a /\ \A j \in 1..(i - 1) : t[j] # a
    ELSE 0

LastIndex(t, a) ==
    IF \E i \in 1..Len(t) : t[i] = a
    THEN CHOOSE i \in 1..Len(t) : t[i] = a /\ \A j \in (i + 1)..Len(t) : t[j] # a
    ELSE 0

\* re.search with the lazy pattern r'\{[\s\S]*?\}'
BraceSearchLazy(t) ==
    LET lo == FirstIndex(t, "{")
        hi == FirstIndex(t, "}")
    IN  IF lo > 0 /\ hi > lo
        THEN [found |-> TRUE, group |-> SubSeq(t, lo, hi)]
        ELSE [found |-> FALSE, group |-> <<>>]

BraceSearch(t) ==
    LET lo == FirstIndex(t, "{")
        hi == LastIndex(t, "}")
    IN  IF lo > 0 /\ hi > lo
        THEN [found |-> TRUE, group |-> SubSeq(t, lo, hi)]
        ELSE [found |-> FALSE, group |-> <<>>]

(***************************************************************************)
(* str(v) and repr(v) of a loaded JSON value, as Python prints them        *)
(***************************************************************************)
RECURSIVE PyRepr(_)
RECURSIVE PyReprItems(_, _)

\* the items of a list or dict from position i on, separated by ", "
PyReprItems(v, i) ==
    IF i > Len(v.items) THEN <<>>
    ELSE (IF i > 1 THEN <<",", SP>> ELSE <<>>)
         \o (IF v.t = "obj" THEN <<"'">> \o v.keys[i] \o <<"'", ":", SP>> ELSE <<>>)
         \o PyRepr(v.items[i])
         \o PyReprItems(v, i + 1)

PyRepr(v) ==
    CASE v.t = "null" -> <<"None">>
      [] v.t = "bool" -> IF v.b THEN <<"True">> ELSE <<"False">>
      [] v.t = "num" -> <<ToString(v.n)>>
      [] v.t = "str" -> <<"'">> \o v.s \o <<"'">>
      [] v.t = "arr" -> <<"[">> \o PyReprItems(v, 1) \o <<"]">>
      [] v.t = "opaque" -> v.s
      [] OTHER -> <<"{">> \o PyReprItems(v, 1) \o <<"}">>

PyStr(v) == IF v.t = "str" THEN v.s ELSE PyRepr(v)

(***************************************************************************)
(* ToolUse and AssistantResponse                                           *)
(***************************************************************************)
\* ToolUse(name=name, params=params, partial=partial); name and params are
\* whatever JSON values the reply carried
ToolUse(name, params, partial) == [name |-> name, params |-> params, partial |-> partial]

NoResponse == [response_type |-> "none", text |-> <<>>, tool_uses |-> <<>>]

\* AssistantResponse.text_response(text)
text_response(text) == [response_type |-> "text", text |-> text, tool_uses |-> <<>>]

\* AssistantResponse.tool_use_response(tool_uses); the constructor raises
\* ValueError for an empty list
tool_use_response(tool_uses) ==
    [response_type |-> "tool_use", text |-> <<>>, tool_uses |-> tool_uses]

is_text(r) == r.response_type = "text"
is_tool_use(r) == r.response_type = "tool_use"

(***************************************************************************)
(* Agent._parse_response.  The outcome is [raised, error, response]:       *)
(* raised = TRUE when the method exits by an exception, error its text.    *)
(***************************************************************************)
NotParsed == [raised |-> FALSE, error |-> <<>>, response |-> NoResponse]
Returned(r) == [raised |-> FALSE, error |-> <<>>, response |-> r]
Raised(e) == [raised |-> TRUE, error |-> e, response |-> NoResponse]

K(w) == <<w>>

\* whether `for entry in v` can start: a list, a str and a dict are iterable,
\* an int and a bool are not
Iterable(v) == v.t \in {"arr", "str", "obj"}

\* the values `for entry in v` yields: the items of a list, the characters
\* of a str, the keys of a dict
IterEntries(v) ==
    CASE v.t = "arr" -> v.items
      [] v.t = "str" -> [i \in 1..Len(v.s) |-> JStr(<<v.s[i]>>)]
      [] OTHER -> [i \in 1..Len(v.keys) |-> JStr(v.keys[i])]

\* lines 257-263 without the test of line 262
EntryKeptUnnamed(entry) == IsDict(entry)

\* lines 257-263: whether an entry yields a ToolUse
EntryKept(entry) == IsDict(entry) /\ Truthy(Get(entry, K("name")))

\* lines 259-263 reading the key params alone
EntryToolUseParamsOnly(entry) ==
    ToolUse(Get(entry, K("name")),
            PyOr(Get(entry, K("params")), JObj(<<>>, <<>>)),
            Truthy(GetOr(entry, K("partial"), JBool(FALSE))))

\* lines 259-263: the ToolUse of a kept entry
EntryToolUse(entry) ==
    ToolUse(Get(entry, K("name")),
            PyOr(PyOr(Get(entry, K("params")), Get(entry, K("arguments"))), JObj(<<>>, <<>>)),
            Truthy(GetOr(entry, K("partial"), JBool(FALSE))))

RECURSIVE CollectToolUses(_)
CollectToolUses(entries) ==
    IF entries = <<>> THEN <<>>
    ELSE (IF EntryKept(Head(entries)) THEN <<EntryToolUse(Head(entries))>> ELSE <<>>)
         \o CollectToolUses(Tail(entries))

\* lines 253-266, for a dict whose discriminator is "tool_use" or "tool"
ParseToolUse(data, stripped) ==
    Bind(PyOr(PyOr(Get(data, K("tool_uses")), Get(data, K("tool_calls"))), JArr(<<>>)),
         LAMBDA tool_entries :
            IF ~Iterable(tool_entries)
            THEN Raised(IF tool_entries.t = "bool"
                        THEN K("TypeError: 'bool' object is not iterable")
                        ELSE K("TypeError: 'int' object is not iterable"))
            ELSE Bind(CollectToolUses(IterEntries(tool_entries)), LAMBDA tool_uses :
                    IF tool_uses # <<>>
                    THEN Returned(tool_use_response(tool_uses))
                    ELSE Returned(text_response(stripped))))

\* lines 232-243 with a third attempt on the shortest brace-delimited span
LoadDataShorter(response_text) ==
    Bind(try_load_json(Strip(response_text)), LAMBDA whole :
        IF whole.ok THEN whole
        ELSE Bind(BraceSearch(response_text), LAMBDA match :
                IF ~match.found THEN whole
                ELSE Bind(try_load_json(match.group), LAMBDA greedy :
                        IF greedy.ok THEN greedy
                        ELSE try_load_json(BraceSearchLazy(response_text).group))))

\* lines 232-243: the loaded JSON value, [ok, val]
LoadData(response_text) ==
    Bind(try_load_json(Strip(response_text)), LAMBDA whole :
        IF whole.ok THEN whole
        ELSE Bind(BraceSearch(response_text), LAMBDA match :
                IF match.found THEN try_load_json(match.group) ELSE whole))

\* lines 245-269 with the raw text as the default of the field text
ParseDictRawDefault(data, stripped) ==
    Bind(PyOr(Get(data, K("type")), Get(data, K("response_type"))), LAMBDA response_type :
        IF response_type = JStr(K("text"))
        THEN Returned(text_response(Strip(PyStr(GetOr(data, K("text"), JStr(stripped))))))
        ELSE IF response_type \in {JStr(K("tool_use")), JStr(K("tool"))}
        THEN ParseToolUse(data, stripped)
        ELSE Returned(text_response(stripped)))

\* lines 245-269, for the loaded dict
ParseDict(data, stripped) ==
    Bind(PyOr(Get(data, K("type")), Get(data, K("response_type"))), LAMBDA response_type :
        IF response_type = JStr(K("text"))
        THEN Returned(text_response(Strip(PyStr(GetOr(data, K("text"), JStr(<<>>))))))
        ELSE IF response_type \in {JStr(K("tool_use")), JStr(K("tool"))}
        THEN ParseToolUse(data, stripped)
        ELSE Returned(text_response(stripped)))

_parse_response(response_text) ==
    Bind(LoadData(response_text), LAMBDA data :
        IF ~data.ok \/ ~IsDict(data.val)
        THEN Returned(text_response(Strip(response_text)))
        ELSE ParseDict(data.val, Strip(response_text)))

(***************************************************************************)
(* json.dumps(v, indent=2)                                                 *)
(***************************************************************************)
Spaces(n) == [i \in 1..n |-> SP]

RECURSIVE JsonDumps(_, _)
RECURSIVE JsonDumpsItems(_, _, _)

\* the items of a non-empty list or dict from position i on, at nesting lvl
JsonDumpsItems(v, i, lvl) ==
    IF i > Len(v.items) THEN <<>>
    ELSE (IF i > 1 THEN <<",">> ELSE <<>>)
         \o <<NL>> \o Spaces(2 * lvl)
         \o (IF v.t = "obj" THEN <<Q>> \o v.keys[i] \o <<Q, ":", SP>> ELSE <<>>)
         \o JsonDumps(v.items[i], lvl)
         \o JsonDumpsItems(v, i + 1, lvl)

JsonDumps(v, lvl) ==
    CASE v.t = "null" -> <<"null">>
      [] v.t = "bool" -> IF v.b THEN <<"true">> ELSE <<"false">>
      [] v.t = "num" -> <<ToString(v.n)>>
      [] v.t = "str" -> <<Q>> \o Escape(v.s) \o <<Q>>
      [] OTHER ->
           LET open == IF v.t = "arr" THEN "[" ELSE "{"
               close == IF v.t = "arr" THEN "]" ELSE "}"
           IN  IF v.items = <<>> THEN <<open, close>>
               ELSE <<open>> \o JsonDumpsItems(v, 1, lvl + 1)
                    \o <<NL>> \o Spaces(2 * lvl) \o <<close>>

(***************************************************************************)
(* Tool results and Agent._format_tool_result.  A result is a value the    *)
(* tool returned: [has_to_dict, value], value being the object itself or,  *)
(* for an object with to_dict(), what to_dict() returns, ToDictRaises when *)
(* the call raises.                                                        *)
(***************************************************************************)
ToolResult(has_to_dict, value) == [has_to_dict |-> has_to_dict, value |-> value]

\* result.to_dict() raises an exception
ToDictRaises == [JBlank EXCEPT !.t = "raises"]

\* json.dumps(v, indent=2) returns: v holds nothing the encoder rejects
RECURSIVE Serializable(_)
Serializable(v) ==
    /\ v.t \notin {"opaque", "raises"}
    /\ \A i \in 1..Len(v.items) : Serializable(v.items[i])

\* the fields of a result object from position i on: name=value, ...
RECURSIVE FieldsStr(_, _)
FieldsStr(v, i) ==
    IF i > Len(v.keys) THEN <<>>
    ELSE (IF i > 1 THEN <<",", SP>> ELSE <<>>)
         \o <<v.keys[i], "=">> \o PyStr(v.items[i]) \o FieldsStr(v, i + 1)

\* str(result): a result class with to_dict() prints as Name(field=value, ...)
ResultStr(r) ==
    IF r.has_to_dict
    THEN <<"Output", "(">> \o FieldsStr(r.value, 1) \o <<")">>
    ELSE PyStr(r.value)

\* lines 375-380 and 383-387 without the except branches
format_tool_result_unguarded(result) ==
    IF result.has_to_dict THEN JsonDumps(result.value, 0)
    ELSE IF result.value.t \in {"obj", "arr"} THEN JsonDumps(result.value, 0)
    ELSE PyStr(result.value)

\* lines 362-391
_format_tool_result(result) ==
    IF result.has_to_dict
    THEN IF Serializable(result.value) THEN JsonDumps(result.value, 0)
         ELSE ResultStr(result)
    ELSE IF result.value.t \in {"obj", "arr"}
    THEN IF Serializable(result.value) THEN JsonDumps(result.value, 0)
         ELSE ResultStr(result)
    ELSE ResultStr(result)

(***************************************************************************)
(* Messages                                                                *)
(***************************************************************************)
USER == "user"
ASSISTANT == "assistant"
SYSTEM == "system"

Message(role, content) == [role |-> role, content |-> content]

NoMessage == [role |-> "none", content |-> <<>>]

\* line 68
NoUserMessages == Message(ASSISTANT, K("I didn't receive any user messages."))

\* lines 122-125
CapReached(max_iterations) ==
    Message(ASSISTANT,
            <<"Maximum tool execution iterations (", ToString(max_iterations),
              ") reached. The agent may be stuck in a loop.">>)

\* line 171 without the fixed marker
LLMErrorBare(e) == text_response(e)

\* line 171
LLMError(e) == text_response(K("Error calling LLM API: ") \o e)

\* " ".join(lines)
RECURSIVE JoinLinesSpace(_)
JoinLinesSpace(lines) ==
    IF lines = <<>> THEN <<>>
    ELSE IF Len(lines) = 1 THEN lines[1]
    ELSE lines[1] \o <<SP>> \o JoinLinesSpace(Tail(lines))

\* "\n".join(lines)
RECURSIVE JoinLines(_)
JoinLines(lines) ==
    IF lines = <<>> THEN <<>>
    ELSE IF Len(lines) = 1 THEN lines[1]
    ELSE lines[1] \o <<NL>> \o JoinLines(Tail(lines))

\* lines 107-108
ToolResultMessage(tool_results) ==
    Message(ASSISTANT, <<"Tool execution results:", NL>> \o JoinLines(tool_results))

\* line 97
SuccessLine(tool_use, result) ==
    PyStr(tool_use.name) \o <<":", SP>> \o _format_tool_result(result)

\* line 101 without the tool name
ErrorLineNoName(tool_use, error) == <<"Error", SP, "-", SP>> \o error

\* line 101
ErrorLine(tool_use, error) ==
    PyStr(tool_use.name) \o <<":", SP, "Error", SP, "-", SP>> \o error

(***************************************************************************)
(* The tool catalog and Agent.execute_tool / Tool.execute                  *)
(***************************************************************************)
\* self.tools: a tool backed by a function, a Tool constructed without one
\* (function=None, execute() not overridden), and a second Tool registered
\* under the name of the first; __init__ stores the list as it is given
Tools ==
    << [name |-> K("draw"), has_function |-> TRUE],
       [name |-> K("stub"), has_function |-> FALSE],
       [name |-> K("draw"), has_function |-> FALSE] >>

\* what a tool's function can return, and the messages of what it can raise
FunctionReturns ==
    { ToolResult(FALSE, JStr(K("done"))),
      ToolResult(TRUE, JObj(<<K("n")>>, <<JNum(5)>>)) }
FunctionErrors == { K("boom") }

NoResult == ToolResult(FALSE, JNull)
Success(r) == [ok |-> TRUE, result |-> r, error |-> <<>>]
Failure(e) == [ok |-> FALSE, result |-> NoResult, error |-> e]

\* str.lower() on the letters of a name
Lower(s) ==
    [i \in 1..Len(s) |-> CASE s[i] = "Draw" -> "draw"
                            [] s[i] = "DRAW" -> "draw"
                            [] s[i] = "Stub" -> "stub"
                            [] OTHER -> s[i]]

\* line 407 comparing the names trimmed and in lower case
NameMatchesFolded(tool, tool_use) ==
    /\ tool_use.name.t = "str"
    /\ Lower(Strip(tool_use.name.s)) = Lower(Strip(tool.name))

\* line 407: t.name == tool_use.name
NameMatches(tool, tool_use) == tool_use.name = JStr(tool.name)

\* line 407: next((t for t in self.tools if ...), None), as an index or 0
FindTool(tool_use) ==
    IF \E i \in 1..Len(Tools) : NameMatches(Tools[i], tool_use)
    THEN CHOOSE i \in 1..Len(Tools) :
            /\ NameMatches(Tools[i], tool_use)
            /\ \A j \in 1..(i - 1) : ~NameMatches(Tools[j], tool_use)
    ELSE 0

\* line 409 without the name of the tool
NotFoundErrorNoName(tool_use) == K("Tool not found in agent's tool list")

\* line 409
NotFoundError(tool_use) ==
    K("Tool '") \o PyStr(tool_use.name) \o K("' not found in agent's tool list")

\* tool.py lines 58-61
NoFunctionError(tool) ==
    K("Tool '") \o tool.name
    \o K("' has no function provided and execute() was not overridden. Either provide a function in __init__ or override execute() in a subclass.")

\* tool.py lines 54-72: the outcomes of tool.execute(tool_use)
ToolExecute(tool, tool_use) ==
    IF ~NameMatches(tool, tool_use)
    THEN { Failure(K("Tool name mismatch: expected ") \o tool.name
                   \o K(", got ") \o PyStr(tool_use.name)) }
    ELSE IF ~tool.has_function
    THEN { Failure(NoFunctionError(tool)) }
    ELSE IF ~IsDict(tool_use.params)
    THEN { Failure(K("argument after ** must be a mapping")) }
    ELSE { Success(r) : r \in FunctionReturns } \cup { Failure(e) : e \in FunctionErrors }

\* lines 393-412 refusing an invocation flagged partial
execute_tool_complete_only(tool_use) ==
    LET i == FindTool(tool_use)
    IN  IF tool_use.partial THEN { Failure(K("incomplete invocation")) }
        ELSE IF i = 0 THEN { Failure(NotFoundError(tool_use)) }
        ELSE ToolExecute(Tools[i], tool_use)

\* lines 393-412: the outcomes of self.execute_tool(tool_use); a Failure is
\* an exception raised to the caller
execute_tool(tool_use) ==
    LET i == FindTool(tool_use)
    IN  IF i = 0 THEN { Failure(NotFoundError(tool_use)) }
        ELSE ToolExecute(Tools[i], tool_use)

(***************************************************************************)
(* ConversationLogger.  The logger is [issued, current_conversation_id,    *)
(* messages, tool_executions, responses]: the three lists are              *)
(* conversation_data, current_conversation_id = 0 stands for None, and     *)
(* issued counts the ids given out, standing for the timestamp and uuid4   *)
(* that make each id new.  Timestamps are left out of the entries.         *)
(***************************************************************************)
NewLogger ==
    [issued |-> 0, current_conversation_id |-> 0,
     messages |-> <<>>, tool_executions |-> <<>>, responses |-> <<>>]

start_conversation(lg) ==
    [issued |-> lg.issued + 1, current_conversation_id |-> lg.issued + 1,
     messages |-> <<>>, tool_executions |-> <<>>, responses |-> <<>>]

EnsureStarted(lg) ==
    IF lg.current_conversation_id = 0 THEN start_conversation(lg) ELSE lg

log_message(lg, message) ==
    Bind(lg, LAMBDA l : [EnsureStarted(l) EXCEPT !.messages = Append(@, message)])

RECURSIVE log_messages(_, _)
log_messages(lg, msgs) ==
    IF msgs = <<>> THEN lg
    ELSE log_messages(log_message(lg, Head(msgs)), Tail(msgs))

log_tool_execution(lg, tool_use, outcome) ==
    [EnsureStarted(lg) EXCEPT !.tool_executions =
        Append(@, [tool_name |-> tool_use.name, parameters |-> tool_use.params,
                   success |-> outcome.ok, result |-> outcome.result,
                   error |-> outcome.error])]

log_response(lg, response) ==
    [EnsureStarted(lg) EXCEPT !.responses = Append(@, response)]

\* what save_conversation writes for the current conversation
ConversationData(lg) ==
    [messages |-> lg.messages, tool_executions |-> lg.tool_executions,
     responses |-> lg.responses]

\* save_conversation returning before the write
save_nothing(lg, fs, written) == fs

\* save_conversation: the files after it; written = FALSE when open or
\* json.dump fails, which is caught and only printed
save_conversation(lg, fs, written) ==
    IF lg.current_conversation_id = 0 \/ ~written THEN fs
    ELSE (lg.current_conversation_id :> ConversationData(lg)) @@ fs

\* ConversationLogger.reset, after its own save_conversation
logger_reset(lg) ==
    [lg EXCEPT !.current_conversation_id = 0, !.messages = <<>>,
               !.tool_executions = <<>>, !.responses = <<>>]

(***************************************************************************)
(* Inputs: the raw texts the model can reply with, the messages of its     *)
(* failures, the message lists run is called with                          *)
(***************************************************************************)
Lit(w) == <<Q, w, Q>>
Pair(k, v) == Lit(k) \o <<":">> \o v
Obj1(a) == <<"{">> \o a \o <<"}">>
Obj2(a, b) == <<"{">> \o a \o <<",">> \o b \o <<"}">>
Arr1(a) == <<"[">> \o a \o <<"]">>
Arr2(a, b) == <<"[">> \o a \o <<",", SP>> \o b \o <<"]">>

\* {"type":"text","text":" hi "}
RawTextHi == Obj2(Pair("type", Lit("text")), Pair("text", <<Q, SP, "hi", SP, Q>>))
\* {"type":"tool_use","tool_uses":[{"name":"nope"}]}
RawToolNope ==
    Obj2(Pair("type", Lit("tool_use")),
         Pair("tool_uses", Arr1(Obj1(Pair("name", Lit("nope"))))))
\* {"type":"tool","tool_calls":[{"name":"nope"}, {"name":"draw","arguments":{}}]}
RawToolTwo ==
    Obj2(Pair("type", Lit("tool")),
         Pair("tool_calls", Arr2(Obj1(Pair("name", Lit("nope"))),
                                 Obj2(Pair("name", Lit("draw")),
                                      Pair("arguments", <<"{", "}">>)))))
\* {"type":"tool_use","tool_uses":[{"name":"draw","params":{"n":5},"partial":true}, {"name":"stub"}]}
RawToolStub ==
    Obj2(Pair("type", Lit("tool_use")),
         Pair("tool_uses",
              Arr2(Obj2(Pair("name", Lit("draw")),
                        Pair("params", Obj1(Pair("n", <<"5">>)))
                        \o <<",">> \o Pair("partial", <<"true">>)),
                   Obj1(Pair("name", Lit("stub"))))))
\* {"type":"tool_use","tool_uses":5}
RawUsesNumber == Obj2(Pair("type", Lit("tool_use")), Pair("tool_uses", <<"5">>))

\* the raw texts the model replies with in the loop
RawTexts == { RawTextHi, RawToolNope, RawToolTwo, RawToolStub, RawUsesNumber }

\* str(e) of what llm_client.generate_response raises
ModelErrors == { K("503 unavailable") }

\* the system prompts an agent is constructed with; <<>> stands for None
SystemPrompts == { <<>>, K("You are an agent.") }

\* the lists run is called with
MessageLists ==
    { <<>>,
      << Message(SYSTEM, K("note")), Message(ASSISTANT, K("earlier answer")) >>,
      << Message(USER, K("hello")) >> }

(***************************************************************************)
(* Bounds                                                                  *)
(***************************************************************************)
\* the number of run calls in one behaviour
MaxRuns == 2
\* the largest max_iterations run is called with
MaxIter == 2

\* the number of model calls in one behaviour
MaxModelCalls == 2

MaxIterationsChoices == 0..MaxIter

(***************************************************************************)
(* State                                                                   *)
(***************************************************************************)
VARIABLES
    system_prompt,         \* Agent.system_prompt
    conversation_history,  \* Agent.conversation_history
    logger,                \* Agent.logger
    files,                 \* the files of output_dir: conversation id -> data
    pc,                    \* "idle": no call in progress; "loop": run is about
                           \* to call the model; "tools": run is in the for
                           \* loop over the tool uses; "waiting": run is in
                           \* a model call that does not return
    messages,              \* run's parameter
    max_iterations,        \* run's parameter
    iteration,             \* run's local
    llm_error,             \* the exception the last model call raised (line 170)
    response_text,         \* what the model replied last (line 165)
    parsed,                \* how _parse_response(response_text) ended
    assistant_response,    \* run's local
    tool_index,            \* position of the for loop in tool_uses
    tool_results,          \* run's local
    result,                \* how the last run call ended
    model_calls,           \* calls of llm_client.generate_response in this run
    responses,             \* what _generate_response_from_history returned in
                           \* this run, in order
    executed,              \* calls of execute_tool in this run, in order
    entry_history,         \* conversation_history when run was called
    runs,                  \* run calls so far
    total_calls,           \* model calls so far
    reply,                 \* what response_text was written from, where known:
                           \* a JSON object and the text put around it
    chat_history,          \* GeminiClient.generate_response: the history the
                           \* chat session was started with
    message_parts,         \* GeminiClient.generate_response: what was sent
    draw_input,            \* DrawBoundingBox: the ToolUse given to execute
    draw_output            \* DrawBoundingBox: how the call ended and the files
                           \* it wrote

vars ==
    << system_prompt, conversation_history, logger, files, pc, messages,
       max_iterations, iteration, llm_error, response_text, parsed,
       assistant_response, tool_index, tool_results, result, model_calls,
       responses, executed, entry_history, runs, total_calls, reply,
       chat_history, message_parts, draw_input, draw_output >>

\* the state of the model client and of the drawing tool
aside == << chat_history, message_parts, draw_input, draw_output >>

NoDraw == [kind |-> "none"]

\* no call of the model client or of the drawing tool was made
AsideIdle ==
    /\ chat_history = <<>>
    /\ message_parts = <<>>
    /\ draw_input = NoDraw
    /\ draw_output = NoDraw

\* how a run call ended: it returned a Message, or an exception left it
NoOutcome == [kind |-> "none", message |-> NoMessage, error |-> <<>>]
Return(m) == [kind |-> "return", message |-> m, error |-> <<>>]
Raise(e) == [kind |-> "raise", message |-> NoMessage, error |-> e]

\* a raw text given as it is
NoSource == [wrap |-> "raw", object |-> JBlank]

\* the exception of a model call: none, or one with str(e) = text
NoError == [raised |-> FALSE, text |-> <<>>]
ErrorOf(e) == [raised |-> TRUE, text |-> e]

\* lines 35-37 and 358-360 without the system message
InitialHistoryEmpty(prompt) == <<>>

\* lines 24-37, and lines 357-360 of reset
InitialHistory(prompt) ==
    IF prompt # <<>> THEN << Message(SYSTEM, prompt) >> ELSE <<>>

Init ==
    /\ system_prompt \in SystemPrompts
    /\ conversation_history = InitialHistory(system_prompt)
    /\ logger = NewLogger
    /\ files = <<>>
    /\ pc = "idle"
    /\ messages = <<>>
    /\ max_iterations = 0
    /\ iteration = 0
    /\ llm_error = NoError
    /\ response_text = <<>>
    /\ parsed = NotParsed
    /\ assistant_response = NoResponse
    /\ tool_index = 0
    /\ tool_results = <<>>
    /\ result = NoOutcome
    /\ model_calls = 0
    /\ responses = <<>>
    /\ executed = <<>>
    /\ entry_history = <<>>
    /\ runs = 0
    /\ total_calls = 0
    /\ reply = NoSource
    /\ AsideIdle

(***************************************************************************)
(* Agent.run                                                               *)
(***************************************************************************)
\* lines 66-67 testing the list instead of the roles
HasAnyMessage(msgs) == msgs # <<>>

\* lines 66-67: user_messages is not empty
HasUserMessage(msgs) == \E i \in 1..Len(msgs) : msgs[i].role = USER

\* line 72 as a loop that always makes its first pass
LoopContinuesOnce(it, max) == it = 0 \/ it < max

\* line 72 with <= for <
LoopContinuesInclusive(it, max) == it <= max

\* line 72
LoopContinues(it, max) == it < max

\* line 63 with an assignment for the extend
HistoryAtCheckReplace(history, msgs) == msgs

\* line 63: the history run checks the user messages with
HistoryAtCheck(history, msgs) == history \o msgs

\* lines 52-60 without the loop of lines 55-57 over the existing history
LogIncomingNewOnly(lg, history, msgs) == log_messages(EnsureStarted(lg), msgs)

\* lines 52-60
LogIncoming(lg, history, msgs) ==
    log_messages(
        IF lg.current_conversation_id = 0
        THEN log_messages(start_conversation(lg), history)
        ELSE lg,
        msgs)

\* a return statement of run: the call ends with message m
Returns(history, lg, m) ==
    /\ conversation_history' = history
    /\ logger' = lg
    /\ result' = Return(m)
    /\ pc' = "idle"

\* the while test of line 72 with a reminder appended before each model call
WhileTestReminding(history, lg, it, max) ==
    IF LoopContinues(it, max)
    THEN /\ conversation_history' = Append(history, Message(USER, K("Go on.")))
         /\ logger' = lg
         /\ result' = NoOutcome
         /\ pc' = "loop"
    ELSE LET error_msg == CapReached(max)
         IN  Returns(Append(history, error_msg), log_message(lg, error_msg), error_msg)

\* control reaches the while test of line 72 with the given history and
\* logger: either the body is entered and the model is called next, or the
\* loop is left and lines 121-128 run
WhileTest(history, lg, it, max) ==
    IF LoopContinues(it, max)
    THEN /\ conversation_history' = history
         /\ logger' = lg
         /\ result' = NoOutcome
         /\ pc' = "loop"
    ELSE LET error_msg == CapReached(max)
         IN  Returns(Append(history, error_msg), log_message(lg, error_msg), error_msg)

\* run(messages, max_iterations), up to its first model call
Run(msgs, max) ==
    /\ pc = "idle"
    /\ runs < MaxRuns
    /\ total_calls + max <= MaxModelCalls
    /\ runs' = runs + 1
    /\ messages' = msgs
    /\ max_iterations' = max
    /\ entry_history' = conversation_history
    /\ iteration' = 0
    /\ model_calls' = 0
    /\ responses' = <<>>
    /\ executed' = <<>>
    /\ llm_error' = NoError
    /\ response_text' = <<>>
    /\ parsed' = NotParsed
    /\ assistant_response' = NoResponse
    /\ tool_index' = 0
    /\ tool_results' = <<>>
    /\ LET lg == LogIncoming(logger, conversation_history, msgs)
           history == HistoryAtCheck(conversation_history, msgs)
       IN  IF ~HasUserMessage(msgs)
           THEN Returns(history, lg, NoUserMessages)
           ELSE WhileTest(history, lg, 0, max)
    /\ UNCHANGED << system_prompt, files, total_calls, reply, aside >>

\* line 84 with the role of the incoming message
TextMessageAsUser(response) == Message(USER, response.text)

\* line 84
TextMessage(response) == Message(ASSISTANT, response.text)

\* lines 79-119: what run does with the response of this iteration
Dispatch(response) ==
    LET lg == log_response(logger, response)
    IN  IF is_text(response)
        THEN LET m == TextMessage(response)
             IN  /\ Returns(Append(conversation_history, m), log_message(lg, m), m)
                 /\ assistant_response' = response
                 /\ UNCHANGED << tool_index, tool_results >>
        ELSE IF is_tool_use(response)
        THEN /\ assistant_response' = response
             /\ tool_index' = 1
             /\ tool_results' = <<>>
             /\ logger' = lg
             /\ pc' = "tools"
             /\ UNCHANGED << conversation_history, result >>
        ELSE LET m == Message(ASSISTANT, K("Unknown response type."))
             IN  /\ Returns(Append(conversation_history, m), log_message(lg, m), m)
                 /\ assistant_response' = response
                 /\ UNCHANGED << tool_index, tool_results >>

\* lines 164-168: the messages the model is called with at pc = "loop"
ModelCallMessages == conversation_history

\* an exception leaves run
Propagates(e) ==
    /\ result' = Raise(e)
    /\ pc' = "idle"
    /\ UNCHANGED << conversation_history, logger, assistant_response, tool_index,
                    tool_results >>

\* lines 73-76 with lines 164-174: the model is called and replies raw
ModelReplies(raw) ==
    /\ pc = "loop"
    /\ iteration' = iteration + 1
    /\ model_calls' = model_calls + 1
    /\ total_calls' = total_calls + 1
    /\ llm_error' = NoError
    /\ response_text' = raw
    /\ \E p \in {_parse_response(raw)} :
          /\ parsed' = p
          /\ IF p.raised
             THEN Propagates(p.error) /\ UNCHANGED responses
             ELSE Dispatch(p.response) /\ responses' = Append(responses, p.response)
    /\ UNCHANGED << system_prompt, files, messages, max_iterations, executed,
                    entry_history, runs, reply, aside >>

\* lines 73-76 with lines 164-171: the model call raises, str(e) = e
ModelFails(e) ==
    /\ pc = "loop"
    /\ iteration' = iteration + 1
    /\ model_calls' = model_calls + 1
    /\ total_calls' = total_calls + 1
    /\ llm_error' = ErrorOf(e)
    /\ Dispatch(LLMError(e))
    /\ responses' = Append(responses, LLMError(e))
    /\ UNCHANGED << system_prompt, files, messages, max_iterations, response_text,
                    parsed, executed, entry_history, runs, reply, aside >>

\* lines 92-103 with a break in the except branch
NextToolIndexBreak(i, o) ==
    IF o.ok THEN i + 1 ELSE Len(assistant_response.tool_uses) + 1

\* lines 92-103 with the failed tool use tried again
NextToolIndexRetry(i, o) == IF o.ok THEN i + 1 ELSE i

\* lines 92-103: the index of the for loop after the tool use at i ended
\* with outcome o
NextToolIndex(i, o) == i + 1

\* lines 92-113: one pass of the for loop, and what follows the last pass
ExecuteTool ==
    /\ pc = "tools"
    /\ tool_index <= Len(assistant_response.tool_uses)
    /\ LET tool_use == assistant_response.tool_uses[tool_index]
       IN  \E o \in execute_tool(tool_use) :
             LET line == IF o.ok THEN SuccessLine(tool_use, o.result)
                         ELSE ErrorLine(tool_use, o.error)
                 results == Append(tool_results, line)
                 lg == log_tool_execution(logger, tool_use, o)
                 next == NextToolIndex(tool_index, o)
             IN  /\ executed' = Append(executed,
                        [iteration |-> iteration, index |-> tool_index,
                         tool_use |-> tool_use, ok |-> o.ok,
                         result |-> o.result, error |-> o.error])
                 /\ tool_results' = results
                 /\ tool_index' = next
                 /\ IF next <= Len(assistant_response.tool_uses)
                    THEN /\ logger' = lg
                         /\ UNCHANGED << conversation_history, result, pc >>
                    ELSE LET m == ToolResultMessage(results)
                         IN  WhileTest(Append(conversation_history, m),
                                       log_message(lg, m), iteration, max_iterations)
    /\ UNCHANGED << system_prompt, files, messages, max_iterations, iteration,
                    llm_error, response_text, parsed, assistant_response,
                    model_calls, responses, entry_history, runs, total_calls,
                    reply, aside >>

(***************************************************************************)
(* Agent.reset                                                             *)
(***************************************************************************)
\* lines 351-360; written1 and written2 tell whether the file writes of
\* the two save_conversation calls (agent.py 354, conversation_logger.py
\* 157) went through
Reset(written1, written2) ==
    /\ pc = "idle"
    /\ files' = save_conversation(logger, save_conversation(logger, files, written1),
                                  written2)
    /\ logger' = logger_reset(logger)
    /\ conversation_history' = InitialHistory(system_prompt)
    /\ result' = NoOutcome
    /\ model_calls' = 0
    /\ responses' = <<>>
    /\ executed' = <<>>
    /\ entry_history' = <<>>
    /\ llm_error' = NoError
    /\ messages' = <<>>
    /\ max_iterations' = 0
    /\ iteration' = 0
    /\ response_text' = <<>>
    /\ parsed' = NotParsed
    /\ assistant_response' = NoResponse
    /\ tool_index' = 0
    /\ tool_results' = <<>>
    /\ UNCHANGED << system_prompt, pc, runs, total_calls, reply, aside >>

Next ==
    \/ \E msgs \in MessageLists, max \in MaxIterationsChoices : Run(msgs, max)
    \/ \E raw \in RawTexts : ModelReplies(raw)
    \/ \E e \in ModelErrors : ModelFails(e)
    \/ ExecuteTool
    \/ \E written1, written2 \in BOOLEAN : Reset(written1, written2)

Spec == Init /\ [][Next]_vars

\* every model call and every tool execution ends
FairSpec ==
    /\ Spec
    /\ WF_vars(\E raw \in RawTexts : ModelReplies(raw))
    /\ WF_vars(\E e \in ModelErrors : ModelFails(e))
    /\ WF_vars(ExecuteTool)

(***************************************************************************)
(* The single-shot Agent.run of agent.py, lines 98-144, for a call with a  *)
(* user message: what it returns and the history it leaves, given the      *)
(* response of its one model call and the outcomes of its tool calls.      *)
(***************************************************************************)
\* agent.py line 131 with the result formatted as the loop formats it
SingleShotLineFormatted(tool_use, o) ==
    IF o.ok THEN PyStr(tool_use.name) \o <<":", SP>> \o _format_tool_result(o.result)
    ELSE PyStr(tool_use.name) \o <<":", SP, "Error", SP, "-", SP>> \o o.error

\* agent.py lines 129-133: the entry of a tool use that ended with outcome o
SingleShotLine(tool_use, o) ==
    IF o.ok THEN PyStr(tool_use.name) \o <<":", SP>> \o ResultStr(o.result)
    ELSE PyStr(tool_use.name) \o <<":", SP, "Error", SP, "-", SP>> \o o.error

\* agent.py lines 121-140: the message built from the response
SingleShotMessage(response, outcomes) ==
    IF is_text(response) THEN Message(ASSISTANT, response.text)
    ELSE IF is_tool_use(response)
    THEN Message(ASSISTANT,
                 <<"Tool execution results:", NL>>
                     \o JoinLines([n \in 1..Len(response.tool_uses) |->
                                      SingleShotLine(response.tool_uses[n], outcomes[n])]))
    ELSE Message(ASSISTANT, K("Unknown response type."))

\* agent.py lines 109 and 142-144: the message returned and the history left
SingleShotRun(history, msgs, response, outcomes) ==
    [message |-> SingleShotMessage(response, outcomes),
     history |-> Append(history \o msgs, SingleShotMessage(response, outcomes))]

(***************************************************************************)
(* The logger as a sink that can fail.  run calls the logger outside any   *)
(* try block at lines 54-60, 79, 86, 103, 110, 117 and 127, and inside the *)
(* try block of the tool call at line 99; an exception of one of these     *)
(* calls is an exception at that line of run.                              *)
(***************************************************************************)
\* str(e) of what a logger call raises
SinkErrors == { K("disk full") }

\* lines 52-60: the first log_message call of run raises e; line 63 is not
\* reached
RunSinkFails(msgs, max, e) ==
    /\ pc = "idle"
    /\ runs < MaxRuns
    /\ total_calls + max <= MaxModelCalls
    /\ (IF logger.current_conversation_id = 0 THEN conversation_history \o msgs ELSE msgs)
         # <<>>
    /\ runs' = runs + 1
    /\ messages' = msgs
    /\ max_iterations' = max
    /\ entry_history' = conversation_history
    /\ iteration' = 0
    /\ model_calls' = 0
    /\ responses' = <<>>
    /\ executed' = <<>>
    /\ llm_error' = NoError
    /\ response_text' = <<>>
    /\ parsed' = NotParsed
    /\ assistant_response' = NoResponse
    /\ tool_index' = 0
    /\ tool_results' = <<>>
    /\ logger' = EnsureStarted(logger)
    /\ result' = Raise(e)
    /\ UNCHANGED << system_prompt, conversation_history, files, pc, total_calls, reply, aside >>

\* lines 73-79: the model replies raw, and log_response raises e
ModelRepliesSinkFails(raw, e) ==
    /\ pc = "loop"
    /\ ~_parse_response(raw).raised
    /\ iteration' = iteration + 1
    /\ model_calls' = model_calls + 1
    /\ total_calls' = total_calls + 1
    /\ llm_error' = NoError
    /\ response_text' = raw
    /\ parsed' = _parse_response(raw)
    /\ responses' = Append(responses, parsed'.response)
    /\ assistant_response' = parsed'.response
    /\ result' = Raise(e)
    /\ pc' = "idle"
    /\ UNCHANGED << system_prompt, conversation_history, logger, files, messages,
                    max_iterations, tool_index, tool_results, executed,
                    entry_history, runs, reply, aside >>

\* lines 92-113: one pass of the for loop in which log_tool_execution
\* raises e.  After a successful tool call the exception of line 99 is
\* caught at line 100 and a second entry is appended for the tool use;
\* again tells whether the call of line 103 raises as well, which leaves run.
ExecuteToolSinkFails(e, again) ==
    /\ pc = "tools"
    /\ tool_index <= Len(assistant_response.tool_uses)
    /\ LET tool_use == assistant_response.tool_uses[tool_index]
       IN  \E o \in execute_tool(tool_use) :
             LET results == IF o.ok
                            THEN tool_results \o << SuccessLine(tool_use, o.result),
                                                    ErrorLine(tool_use, e) >>
                            ELSE Append(tool_results, ErrorLine(tool_use, o.error))
                 lg == log_tool_execution(logger, tool_use, Failure(e))
                 next == NextToolIndex(tool_index, o)
             IN  /\ o.ok \/ again
                 /\ executed' = Append(executed,
                        [iteration |-> iteration, index |-> tool_index,
                         tool_use |-> tool_use, ok |-> o.ok,
                         result |-> o.result, error |-> o.error])
                 /\ tool_results' = results
                 /\ IF again
                    THEN /\ result' = Raise(e)
                         /\ pc' = "idle"
                         /\ UNCHANGED << conversation_history, logger, tool_index >>
                    ELSE /\ tool_index' = next
                         /\ IF next <= Len(assistant_response.tool_uses)
                            THEN /\ logger' = lg
                                 /\ UNCHANGED << conversation_history, result, pc >>
                            ELSE LET m == ToolResultMessage(results)
                                 IN  WhileTest(Append(conversation_history, m),
                                               log_message(lg, m), iteration,
                                               max_iterations)
    /\ UNCHANGED << system_prompt, files, messages, max_iterations, iteration,
                    llm_error, response_text, parsed, assistant_response,
                    model_calls, responses, entry_history, runs, total_calls,
                    reply, aside >>

SinkNext ==
    \/ \E msgs \in MessageLists, max \in MaxIterationsChoices, e \in SinkErrors :
          RunSinkFails(msgs, max, e)
    \/ \E raw \in RawTexts, e \in SinkErrors : ModelRepliesSinkFails(raw, e)
    \/ \E e \in SinkErrors, again \in BOOLEAN : ExecuteToolSinkFails(e, again)

\* the agent with a logger whose calls can raise
SinkSpec == Init /\ [][Next \/ SinkNext]_vars

(***************************************************************************)
(* A model call that does not return.  Lines 164-168 call                  *)
(* llm_client.generate_response without a timeout, and run takes none.     *)
(***************************************************************************)
\* lines 73-76 with lines 164-168: the model is called and the call blocks
ModelHangs ==
    /\ pc = "loop"
    /\ iteration' = iteration + 1
    /\ model_calls' = model_calls + 1
    /\ total_calls' = total_calls + 1
    /\ pc' = "waiting"
    /\ UNCHANGED << system_prompt, conversation_history, logger, files, messages,
                    max_iterations, llm_error, response_text, parsed,
                    assistant_response, tool_index, tool_results, result,
                    responses, executed, entry_history, runs, reply, aside >>

HangNext == Next \/ ModelHangs

\* every step that can be taken is taken in the end
HangSpec == Init /\ [][HangNext]_vars /\ WF_vars(HangNext)

(***************************************************************************)
(* _parse_response alone, on a family of raw texts: reply objects whose    *)
(* type and tool_uses fields are absent or carry a value of each JSON      *)
(* type, bare, padded with whitespace and wrapped in prose.                *)
(***************************************************************************)
\* {"name":"draw","params":{"n":5}}
DrawEntry ==
    JObj(<<K("name"), K("params")>>, <<JStr(K("draw")), JObj(<<K("n")>>, <<JNum(5)>>)>>)

\* a field is <<>> when absent and <<value>> when present
TypeFields ==
    { <<>>, <<JStr(K("text"))>>, <<JStr(K("tool_use"))>>, <<JStr(K("tool"))>> }

ToolUsesFields ==
    { <<>>, <<JNull>>, <<JNum(0)>>, <<JNum(5)>>, <<JBool(TRUE)>>, <<JStr(K("ab"))>>,
      <<DrawEntry>>, <<JArr(<<>>)>>, <<JArr(<<DrawEntry>>)>>,
      <<JArr(<<JNum(5), DrawEntry>>)>> }

\* {"type": ty, "text": " hi ", "tool_uses": tu}, without the absent fields
ReplyObject(ty, tu) ==
    JObj((IF ty # <<>> THEN <<K("type")>> ELSE <<>>) \o <<K("text")>>
            \o (IF tu # <<>> THEN <<K("tool_uses")>> ELSE <<>>),
         ty \o <<JStr(<<SP, "hi", SP>>)>> \o tu)

Wraps == { "bare", "padded", "prose" }

Wrap(w, t) ==
    CASE w = "bare" -> t
      [] w = "padded" -> <<NL, SP>> \o t \o <<SP, NL>>
      [] OTHER -> <<"Sure!", SP>> \o t \o <<SP, "Done.">>

\* " not json at all\n"
RawGarbage == <<SP, "not", SP, "json", SP, "at", SP, "all", NL>>

\* objects whose keys type and response_type hold other values
TypeValues ==
    { <<>>, <<JNull>>, <<JStr(<<>>)>>, <<JStr(K("other"))>>, <<JNum(5)>>,
      <<JStr(K("Text"))>>, <<JBool(FALSE)>>, <<JNum(0)>> }

ResponseTypeFields ==
    { <<>>, <<JStr(K("text"))>>, <<JStr(K("tool_use"))>>, <<JStr(K("other"))>> }

\* {"type": ty, "response_type": rt, "text": " hi ", "tool_uses": [DrawEntry]},
\* without the absent fields
DiscriminatorObject(ty, rt) ==
    JObj((IF ty # <<>> THEN <<K("type")>> ELSE <<>>)
            \o (IF rt # <<>> THEN <<K("response_type")>> ELSE <<>>)
            \o <<K("text"), K("tool_uses")>>,
         ty \o rt \o <<JStr(<<SP, "hi", SP>>), JArr(<<DrawEntry>>)>>)

\* the values of the field text of a text reply
TextFields ==
    { <<>>, <<JNull>>, <<JNum(5)>>, <<JBool(TRUE)>>, <<JStr(<<>>)>>, <<JStr(K("ok"))>>,
      <<JStr(<<NL, "two", SP, "words", SP>>)>>,
      <<JObj(<<K("a")>>, <<JNum(5)>>)>>, <<JArr(<<JNum(5)>>)>> }

\* {"type": "text", "text": tx}, or {"response_type": "text", "text": tx}
TextObject(key, tx) ==
    JObj(<<K(key)>> \o (IF tx # <<>> THEN <<K("text")>> ELSE <<>>),
         <<JStr(K("text"))>> \o tx)

\* the entries of tool_uses and tool_calls
ArgsEntry ==
    JObj(<<K("name"), K("arguments"), K("partial")>>,
         <<JStr(K("stub")), JObj(<<K("n")>>, <<JNum(5)>>), JBool(TRUE)>>)
BothEntry ==
    JObj(<<K("name"), K("params"), K("arguments"), K("partial")>>,
         <<JStr(K("draw")), JObj(<<K("n")>>, <<JNum(0)>>),
           JObj(<<K("n")>>, <<JNum(5)>>), JBool(FALSE)>>)
EmptyParamsEntry ==
    JObj(<<K("name"), K("params"), K("arguments")>>,
         <<JStr(K("draw")), JObj(<<>>, <<>>), JObj(<<K("n")>>, <<JNum(5)>>)>>)
BareEntry == JObj(<<K("name")>>, <<JStr(K("nope"))>>)
NoNameEntry == JObj(<<K("params")>>, <<JObj(<<K("n")>>, <<JNum(5)>>)>>)
NullNameEntry == JObj(<<K("name"), K("params")>>, <<JNull, JObj(<<>>, <<>>)>>)
EmptyNameEntry == JObj(<<K("name")>>, <<JStr(<<>>)>>)

EntryLists ==
    { <<>>, <<JNull>>, <<JArr(<<>>)>>,
      <<JArr(<<ArgsEntry>>)>>,
      <<JArr(<<BothEntry, EmptyParamsEntry>>)>>,
      <<JArr(<<NoNameEntry, BareEntry>>)>>,
      <<JArr(<<JNum(5), DrawEntry, JStr(K("draw")), NullNameEntry, ArgsEntry>>)>>,
      <<JArr(<<NoNameEntry>>)>>,
      <<JArr(<<NullNameEntry, EmptyNameEntry, JNum(5), JArr(<<BareEntry>>)>>)>>,
      <<JArr(<<BareEntry, NoNameEntry, DrawEntry>>)>> }

CallLists == { <<>>, <<JArr(<<>>)>>, <<JArr(<<BareEntry, ArgsEntry>>)>>, <<JArr(<<EmptyNameEntry>>)>> }

\* {"type": ty, "tool_uses": tu, "tool_calls": tc}, without the absent fields
EntriesObject(ty, tu, tc) ==
    JObj(<<K("type")>> \o (IF tu # <<>> THEN <<K("tool_uses")>> ELSE <<>>)
            \o (IF tc # <<>> THEN <<K("tool_calls")>> ELSE <<>>),
         <<JStr(K(ty))>> \o tu \o tc)

\* the objects the raw texts of the family are written from
ReplyObjects ==
    { ReplyObject(ty, tu) : ty \in TypeFields, tu \in ToolUsesFields }
    \cup { DiscriminatorObject(ty, rt) : ty \in TypeValues, rt \in ResponseTypeFields }
    \cup { TextObject(key, tx) : key \in {"type", "response_type"}, tx \in TextFields }
    \cup { EntriesObject(ty, tu, tc) :
             ty \in {"tool_use", "tool"}, tu \in EntryLists, tc \in CallLists }

\* the raw text of a source: json.dumps of the object, wrapped
TextOf(src) == Wrap(src.wrap, JsonDumps(src.object, 0))

\* {"type":"text","text":" hi "} and {"type":"text","text":" hi "}
RawTwoObjects == RawTextHi \o <<SP, "and", SP>> \o RawTextHi

\* {"type":"tool_use","tool_uses":[{"name":"nope"}]} }
RawObjectThenBrace == RawToolNope \o <<SP, "}">>

\* raw texts that hold no JSON object, or none that json.loads accepts
NonObjectTexts ==
    { RawGarbage, <<>>, <<SP, NL>>, <<"5">>, <<"null">>, <<SP, "[", "5", "]", NL>>,
      <<"a", SP, "{", "b", "}", SP, "c">>,
      RawTwoObjects, RawObjectThenBrace,
      <<"{">> \o Pair("type", Lit("text")) }

\* } {"type":"text","text":" hi "} {
RawStrayBraces == <<"}", SP>> \o RawTextHi \o <<SP, "{">>

\* valid JSON that is no object, around a reply object:
\* [{"type":"text","text":" hi "}] and [5, <RawToolNope>]
RawArrayAroundText == <<"[">> \o RawTextHi \o <<"]">>
RawArrayAroundTool == <<"[", "5", ",", SP>> \o RawToolNope \o <<"]", NL>>

\* the same array after a word of prose: Sure! [{"type":"text","text":" hi "}]
RawArrayInProse == <<"Sure!", SP>> \o RawArrayAroundText

ArrayTexts == { RawArrayAroundText, RawArrayAroundTool }

PlainTexts ==
    RawTexts \cup NonObjectTexts \cup ArrayTexts \cup { RawStrayBraces, RawArrayInProse }

ParseTexts ==
    { TextOf([wrap |-> w, object |-> o]) : w \in Wraps, o \in ReplyObjects }
    \cup PlainTexts

ParseInit ==
    /\ \/ \E w \in Wraps, o \in ReplyObjects :
            /\ reply = [wrap |-> w, object |-> o]
            /\ response_text = TextOf(reply)
       \/ /\ reply = NoSource
          /\ response_text \in PlainTexts
    /\ parsed = NotParsed
    /\ pc = "parse"
    /\ AsideIdle
    /\ system_prompt = <<>>
    /\ conversation_history = <<>>
    /\ logger = NewLogger
    /\ files = <<>>
    /\ messages = <<>>
    /\ max_iterations = 0
    /\ iteration = 0
    /\ llm_error = NoError
    /\ assistant_response = NoResponse
    /\ tool_index = 0
    /\ tool_results = <<>>
    /\ result = NoOutcome
    /\ model_calls = 0
    /\ responses = <<>>
    /\ executed = <<>>
    /\ entry_history = <<>>
    /\ runs = 0
    /\ total_calls = 0

\* self._parse_response(response_text) is called and ends
Parse ==
    /\ pc = "parse"
    /\ parsed' = _parse_response(response_text)
    /\ pc' = "parsed"
    /\ UNCHANGED << system_prompt, conversation_history, logger, files, messages,
                    max_iterations, iteration, llm_error, response_text,
                    assistant_response, tool_index, tool_results, result,
                    model_calls, responses, executed, entry_history, runs,
                    total_calls, reply, aside >>

ParseSpec == ParseInit /\ [][Parse]_vars

(***************************************************************************)
(* run called with a max_iterations that allows no iteration               *)
(***************************************************************************)
\* the values of max_iterations with which the while test of line 72 fails
\* at once
NoIterations == -1..0

CapNext ==
    \/ \E msgs \in MessageLists, max \in NoIterations : Run(msgs, max)
    \/ \E written1, written2 \in BOOLEAN : Reset(written1, written2)

CapSpec == Init /\ [][CapNext]_vars

(***************************************************************************)
(* The loop on replies that invoke one tool under a name that is, or is    *)
(* close to, a registered name.                                            *)
(***************************************************************************)
\* the names the model invokes: registered names, their variants in letter
\* case and surrounding whitespace, and an unrelated name
InvokedNames ==
    { K("draw"), K("Draw"), K("DRAW"), <<SP, "draw">>, <<"draw", SP>>,
      <<SP, "Draw", SP>>, K("stub"), K("Stub"), K("nope") }

\* {"type":"tool_use","tool_uses":[{"name":"<name>","params":{"n":5}}]}
RawInvoking(name) ==
    Obj2(Pair("type", Lit("tool_use")),
         Pair("tool_uses",
              Arr1(Obj2(Pair("name", <<Q>> \o name \o <<Q>>),
                        Pair("params", Obj1(Pair("n", <<"5">>)))))))

NameNext ==
    \/ \E max \in 1..MaxIter : Run(<< Message(USER, K("hello")) >>, max)
    \/ \E name \in InvokedNames : ModelReplies(RawInvoking(name))
    \/ ExecuteTool

NameSpec == Init /\ [][NameNext]_vars

(***************************************************************************)
(* _format_tool_result alone, at lines 94-97 of run: a tool has returned a *)
(* value and its entry is added to the tool results.                       *)
(***************************************************************************)
\* the values inside the lists and dicts a tool returns
ItemValues ==
    { JNull, JNum(5), JStr(K("done")), JStr(<<"a", NL, "b">>), JArr(<<>>),
      JOpaque(K("{1, 2}")) }

\* the values a tool returns, or the to_dict() of what it returns
ResultValues ==
    { JNull, JBool(TRUE), JBool(FALSE), JNum(0), JNum(5), JStr(<<>>),
      JStr(K("done")), JStr(<<"a", NL, "b">>), JOpaque(K("{1, 2}")),
      JArr(<<>>), JObj(<<>>, <<>>) }
    \cup { JArr(<<x>>) : x \in ItemValues }
    \cup { JArr(<<JNum(5), x>>) : x \in ItemValues }
    \cup { JObj(<<K("n")>>, <<x>>) : x \in ItemValues }
    \cup { JObj(<<K("boxes")>>, <<JArr(<<x>>)>>) : x \in ItemValues }

\* the results: plain values, and objects with a to_dict() that returns a
\* value or raises
FormatResults ==
    { ToolResult(d, v) : d \in BOOLEAN, v \in ResultValues }
    \cup { ToolResult(TRUE, ToDictRaises) }

\* {"name":"draw","params":{"n":5}} as a ToolUse
DrawToolUse == ToolUse(JStr(K("draw")), JObj(<<K("n")>>, <<JNum(5)>>), FALSE)

FormatInit ==
    /\ \E r \in FormatResults :
          executed = << [iteration |-> 1, index |-> 1, tool_use |-> DrawToolUse,
                         ok |-> TRUE, result |-> r, error |-> <<>>] >>
    /\ tool_results = <<>>
    /\ pc = "format"
    /\ system_prompt = <<>>
    /\ conversation_history = <<>>
    /\ logger = NewLogger
    /\ files = <<>>
    /\ messages = <<>>
    /\ max_iterations = 0
    /\ iteration = 0
    /\ llm_error = NoError
    /\ response_text = <<>>
    /\ parsed = NotParsed
    /\ assistant_response = NoResponse
    /\ tool_index = 0
    /\ result = NoOutcome
    /\ model_calls = 0
    /\ responses = <<>>
    /\ entry_history = <<>>
    /\ runs = 0
    /\ total_calls = 0
    /\ reply = NoSource
    /\ AsideIdle

\* lines 96-97: result_str = self._format_tool_result(result) and the entry
FormatResult ==
    /\ pc = "format"
    /\ tool_results' = << SuccessLine(executed[1].tool_use, executed[1].result) >>
    /\ pc' = "formatted"
    /\ UNCHANGED << system_prompt, conversation_history, logger, files, messages,
                    max_iterations, iteration, llm_error, response_text, parsed,
                    assistant_response, tool_index, result, model_calls, responses,
                    executed, entry_history, runs, total_calls, reply, aside >>

FormatSpec == FormatInit /\ [][FormatResult]_vars

(***************************************************************************)
(* GeminiClient.generate_response (providers/gemini.py), on the messages   *)
(* it is called with.  The messages carry no image.                        *)
(***************************************************************************)
\* lines 82 and 84: the chat entry of a User or Assistant message
ChatEntry(msg) ==
    [role |-> IF msg.role = USER THEN "user" ELSE "model", parts |-> << msg.content >>]

\* lines 65-84: chat_history after the loop over msgs
RECURSIVE ChatHistory(_)
ChatHistory(msgs) ==
    IF msgs = <<>> THEN <<>>
    ELSE (IF Head(msgs).role = SYSTEM THEN <<>> ELSE << ChatEntry(Head(msgs)) >>)
         \o ChatHistory(Tail(msgs))

\* lines 66-70: system_content after the loop over msgs
RECURSIVE SystemContent(_, _)
SystemContent(msgs, content) ==
    IF msgs = <<>> THEN content
    ELSE SystemContent(Tail(msgs),
                       IF Head(msgs).role = SYSTEM THEN Head(msgs).content ELSE content)

\* lines 92-109: the index of the message whose content is the prompt, the
\* last message when it is an Assistant message and the last User message
\* otherwise; 0 when there is none
PromptIndex(msgs) ==
    IF msgs = <<>> THEN 0
    ELSE IF msgs[Len(msgs)].role = ASSISTANT THEN Len(msgs)
    ELSE IF \E i \in 1..Len(msgs) : msgs[i].role = USER
    THEN CHOOSE i \in 1..Len(msgs) :
            /\ msgs[i].role = USER
            /\ \A j \in (i + 1)..Len(msgs) : msgs[j].role # USER
    ELSE 0

\* lines 121-138: message_parts for the prompt content
MessageParts(system_content, tools_description, prompt_content) ==
    LET prompt_parts ==
            (IF system_content # <<>> THEN << system_content >> ELSE <<>>)
            \o (IF tools_description # <<>>
                THEN << <<NL, NL, "Available tools:", NL>> \o tools_description >>
                ELSE <<>>)
    IN  IF prompt_parts # <<>>
        THEN << JoinLines(prompt_parts) \o <<NL, NL, "User: ">> \o prompt_content >>
        ELSE << prompt_content >>

\* the messages of the histories the client is called with
ClientMessages ==
    { Message(SYSTEM, K("You are an agent.")), Message(SYSTEM, K("note")),
      Message(USER, K("hello")), Message(USER, K("again")),
      Message(ASSISTANT, K("earlier answer")),
      Message(ASSISTANT, <<"Tool execution results:", NL, "draw", ":", SP, "done">>) }

\* the longest history the client is called with
MaxHistory == 3

ClientHistories ==
    UNION { [1..n -> ClientMessages] : n \in 0..MaxHistory }

\* the tools_description argument; <<>> stands for None
ToolsDescriptions == { <<>>, K("- draw: draws boxes") }

ClientInit ==
    /\ system_prompt \in SystemPrompts
    /\ messages \in ClientHistories
    /\ pc = "client"
    /\ chat_history = <<>>
    /\ message_parts = <<>>
    /\ draw_input = NoDraw
    /\ draw_output = NoDraw
    /\ conversation_history = <<>>
    /\ logger = NewLogger
    /\ files = <<>>
    /\ max_iterations = 0
    /\ iteration = 0
    /\ llm_error = NoError
    /\ response_text = <<>>
    /\ parsed = NotParsed
    /\ assistant_response = NoResponse
    /\ tool_index = 0
    /\ tool_results = <<>>
    /\ result = NoOutcome
    /\ model_calls = 0
    /\ responses = <<>>
    /\ executed = <<>>
    /\ entry_history = <<>>
    /\ runs = 0
    /\ total_calls = 0
    /\ reply = NoSource

\* lines 64-144: generate_response(messages, system_prompt, tools_description)
\* up to chat.send_message(message_parts), or to the ValueError it raises
GenerateResponse(tools_description) ==
    /\ pc = "client"
    /\ chat_history' = ChatHistory(messages)
    /\ IF messages = <<>>
       THEN /\ llm_error' = ErrorOf(K("No messages provided"))
            /\ pc' = "raised"
            /\ UNCHANGED message_parts
       ELSE IF PromptIndex(messages) = 0
       THEN /\ llm_error' = ErrorOf(K("No user messages provided"))
            /\ pc' = "raised"
            /\ UNCHANGED message_parts
       ELSE /\ message_parts' =
                  MessageParts(SystemContent(messages, system_prompt), tools_description,
                               messages[PromptIndex(messages)].content)
            /\ pc' = "sent"
            /\ UNCHANGED llm_error
    /\ UNCHANGED << system_prompt, conversation_history, logger, files, messages,
                    max_iterations, iteration, response_text, parsed,
                    assistant_response, tool_index, tool_results, result,
                    model_calls, responses, executed, entry_history, runs,
                    total_calls, reply, draw_input, draw_output >>

ClientSpec ==
    ClientInit /\ [][\E td \in ToolsDescriptions : GenerateResponse(td)]_vars

(***************************************************************************)
(* DrawBoundingBox (tools/draw_bounding_box.py) with the BoundingBox of    *)
(* the package tools/detect_bounding_box, which is what the import of line *)
(* 5 binds.  Numbers are whole numbers; a path is <<base, extension>>;     *)
(* color, draw_labels and label_text keep their defaults.                  *)
(***************************************************************************)
DrawRaise(type, error) == [kind |-> "raise", type |-> type, error |-> error, value |-> <<>>]
DrawReturn(v) == [kind |-> "return", type |-> "", error |-> <<>>, value |-> v]
DrawSkip == [kind |-> "skip", type |-> "", error |-> <<>>, value |-> <<>>]

\* float(v), as DrawReturn(number) or the exception
FloatOf(v) ==
    CASE v.t = "num" -> DrawReturn(v.n)
      [] v.t = "bool" -> DrawReturn(IF v.b THEN 1 ELSE 0)
      [] v.t = "str" ->
           IF Len(v.s) = 1 /\ v.s[1] \in NumAtoms THEN DrawReturn(NumVal(v.s[1]))
           ELSE DrawRaise("ValueError",
                          <<"could not convert string to float: ">> \o PyRepr(v))
      [] OTHER -> DrawRaise("TypeError",
                            K("float() argument must be a string or a real number"))

\* int(v), as DrawReturn(number) or the exception
IntOf(v) ==
    CASE v.t = "num" -> DrawReturn(v.n)
      [] v.t = "bool" -> DrawReturn(IF v.b THEN 1 ELSE 0)
      [] v.t = "str" ->
           IF Len(v.s) = 1 /\ v.s[1] \in NumAtoms THEN DrawReturn(NumVal(v.s[1]))
           ELSE DrawRaise("ValueError",
                          <<"invalid literal for int() with base 10: ">> \o PyRepr(v))
      [] OTHER -> DrawRaise("TypeError",
                            K("int() argument must be a string, a bytes-like object or a real number"))

\* [float(x) for x in items] from position i on, after the floats acc
RECURSIVE Floats(_, _, _)
Floats(items, i, acc) ==
    IF i > Len(items) THEN DrawReturn(acc)
    ELSE LET f == FloatOf(items[i])
         IN  IF f.kind = "raise" THEN f ELSE Floats(items, i + 1, Append(acc, f.value))

\* detect_bounding_box/bounding_box.py lines 5-20: BoundingBox(confidence, xyxy)
BoundingBox(confidence, xyxy) ==
    IF ~(0 <= confidence /\ confidence <= 1)
    THEN DrawRaise("ValueError",
                   <<"Confidence must be between 0.0 and 1.0, got ", ToString(confidence)>>)
    ELSE IF Len(xyxy) # 4
    THEN DrawRaise("ValueError",
                   <<"xyxy must contain exactly 4 coordinates, got ", ToString(Len(xyxy))>>)
    ELSE IF \E i \in 1..Len(xyxy) : ~(0 <= xyxy[i] /\ xyxy[i] <= 1)
    THEN LET i == CHOOSE i \in 1..Len(xyxy) :
                      /\ ~(0 <= xyxy[i] /\ xyxy[i] <= 1)
                      /\ \A j \in 1..(i - 1) : 0 <= xyxy[j] /\ xyxy[j] <= 1
         IN  DrawRaise("ValueError",
                       <<"Normalized coordinates must be between 0.0 and 1.0, got ",
                         ToString(xyxy[i])>>)
    ELSE DrawReturn([confidence |-> confidence, xyxy |-> xyxy])

\* "xyxy" in box_dict, for a dict, a list and a str
HasXyxy(box_dict) ==
    CASE box_dict.t = "obj" -> HasKey(box_dict, K("xyxy"))
      [] box_dict.t = "arr" ->
           \E i \in 1..Len(box_dict.items) : box_dict.items[i] = JStr(K("xyxy"))
      [] OTHER -> \E i \in 1..Len(box_dict.s) : box_dict.s[i] = "xyxy"

\* draw_bounding_box.py lines 189-194 and 198-203: one pass of the loop
ParseBox(box_dict) ==
    IF ~Iterable(box_dict)
    THEN DrawRaise("TypeError", K("argument of type is not iterable"))
    ELSE IF ~HasXyxy(box_dict) THEN DrawSkip
    ELSE IF ~IsDict(box_dict)
    THEN DrawRaise("AttributeError", K("object has no attribute 'get'"))
    ELSE LET c == FloatOf(GetOr(box_dict, K("confidence"), JNum(1)))
             xs == Get(box_dict, K("xyxy"))
         IN  IF c.kind = "raise" THEN c
             ELSE IF ~Iterable(xs)
             THEN DrawRaise("TypeError", K("object is not iterable"))
             ELSE LET fs == Floats(IterEntries(xs), 1, <<>>)
                  IN  IF fs.kind = "raise" THEN fs
                      ELSE BoundingBox(c.value, fs.value)

\* the loops of lines 188-194 and 197-203 from position i on
RECURSIVE ParseBoxList(_, _, _)
ParseBoxList(entries, i, boxes) ==
    IF i > Len(entries) THEN DrawReturn(boxes)
    ELSE LET b == ParseBox(entries[i])
         IN  IF b.kind = "raise" THEN b
             ELSE IF b.kind = "skip" THEN ParseBoxList(entries, i + 1, boxes)
             ELSE ParseBoxList(entries, i + 1, Append(boxes, b.value))

\* draw_bounding_box.py lines 171-207
_parse_boxes(boxes_data) ==
    IF IsDict(boxes_data) /\ HasKey(boxes_data, K("boxes"))
    THEN IF ~Iterable(Get(boxes_data, K("boxes")))
         THEN DrawRaise("TypeError", K("object is not iterable"))
         ELSE ParseBoxList(IterEntries(Get(boxes_data, K("boxes"))), 1, <<>>)
    ELSE IF boxes_data.t = "arr" THEN ParseBoxList(boxes_data.items, 1, <<>>)
    ELSE DrawRaise("ValueError",
                   K("Invalid boxes format. Expected dict with 'boxes' key or list of box dicts."))

\* self.name
DrawName == K("draw_bounding_box")

\* the image files that exist and that Image.open reads
LoadableImages == { <<"ui", ".png">> }

\* lines 209-226: _get_output_path
_get_output_path(input_path, output_path) ==
    IF Truthy(output_path) THEN PyStr(output_path)
    ELSE IF Len(input_path) > 1
    THEN SubSeq(input_path, 1, Len(input_path) - 1)
         \o <<"_annotated", input_path[Len(input_path)]>>
    ELSE input_path \o <<"_annotated">>

\* the outcome of execute and the files it wrote
Drawn(outcome, written) == [outcome |-> outcome, written |-> written]

\* lines 287-408: execute(tool_use); saved tells whether draw_image.save
\* of line 400 went through
DrawExecuteOutcome(tool_use, saved) ==
    LET params == tool_use.params
        line_width == IntOf(GetOr(params, K("line_width"), JNum(3)))
        image_path == GetOr(params, K("image_path"), JStr(<<>>))
        boxes_data == GetOr(params, K("boxes"), JArr(<<>>))
        boxes == _parse_boxes(boxes_data)
        output_path == _get_output_path(PyStr(image_path), Get(params, K("output_path")))
    IN  IF tool_use.name # JStr(DrawName)
        THEN Drawn(DrawRaise("ValueError",
                             K("Tool name mismatch: expected ") \o DrawName
                             \o K(", got ") \o PyStr(tool_use.name)), {})
        ELSE IF ~IsDict(params)
        THEN Drawn(DrawRaise("AttributeError", K("object has no attribute 'get'")), {})
        ELSE IF line_width.kind = "raise" THEN Drawn(line_width, {})
        ELSE IF ~Truthy(image_path)
        THEN Drawn(DrawRaise("ValueError", K("image_path parameter is required")), {})
        ELSE IF ~Truthy(boxes_data)
        THEN Drawn(DrawRaise("ValueError", K("boxes parameter is required")), {})
        ELSE IF image_path.t # "str" \/ image_path.s \notin LoadableImages
        THEN Drawn(DrawRaise("ValueError",
                             K("Failed to load image from ") \o PyStr(image_path)), {})
        ELSE IF boxes.kind = "raise"
        THEN Drawn(DrawRaise("ValueError", K("Failed to parse boxes: ") \o boxes.error), {})
        ELSE IF boxes.value = <<>>
        THEN Drawn(DrawRaise("ValueError", K("No valid boxes found in the provided data")),
                   {})
        ELSE IF ~saved
        THEN Drawn(DrawRaise("RuntimeError",
                             K("Failed to save annotated image to ") \o output_path), {})
        ELSE Drawn(DrawReturn(ToolResult(TRUE,
                        JObj(<<K("output_path"), K("boxes_drawn")>>,
                             <<JStr(output_path), JNum(Len(boxes.value))>>))),
                   { output_path })

\* the largest number of boxes in a list
MaxBoxes == 2

\* the box dicts: normalized and pixel coordinates, with and without a
\* confidence, without xyxy, with three coordinates, with a confidence of 2
BoxDicts ==
    { JObj(<<K("xyxy")>>, <<JArr(<<JNum(0), JNum(0), JNum(1), JNum(1)>>)>>),
      JObj(<<K("xyxy"), K("confidence")>>,
           <<JArr(<<JNum(0), JNum(1), JNum(0), JNum(1)>>), JNum(0)>>),
      JObj(<<K("xyxy"), K("confidence")>>,
           <<JArr(<<JNum(10), JNum(20), JNum(30), JNum(40)>>), JNum(1)>>),
      JObj(<<K("confidence"), K("label")>>, <<JNum(1), JStr(K("button"))>>),
      JObj(<<K("xyxy")>>, <<JArr(<<JNum(0), JNum(0), JNum(1)>>)>>),
      JObj(<<K("xyxy"), K("confidence")>>,
           <<JArr(<<JNum(0), JNum(0), JNum(1), JNum(1)>>), JNum(2)>>) }

BoxLists == UNION { [1..n -> BoxDicts] : n \in 0..MaxBoxes }

\* the values of the boxes parameter: lists of box dicts, BoundingBoxOutput
\* dicts, and values that are neither
BoxesData ==
    { JArr(l) : l \in BoxLists }
    \cup { JObj(<<K("width"), K("height"), K("boxes")>>, <<JNum(5), JNum(5), JArr(l)>>) :
             l \in BoxLists }
    \cup { JStr(K("invalid format")), JObj(<<K("width")>>, <<JNum(5)>>),
           JObj(<<K("boxes")>>, <<JNum(5)>>), JArr(<<JNum(5)>>) }

\* a parameter is <<>> when absent and <<value>> when present
ImagePathFields ==
    { <<>>, <<JStr(<<>>)>>, <<JStr(<<"ui", ".png">>)>>, <<JStr(<<"missing", ".png">>)>> }
BoxesFields == { <<>> } \cup { <<b>> : b \in BoxesData }
LineWidthFields == { <<>>, <<JNum(5)>>, <<JStr(K("thick"))>>, <<JNull>> }

DrawParams(image_path, boxes, line_width) ==
    JObj((IF image_path # <<>> THEN <<K("image_path")>> ELSE <<>>)
         \o (IF boxes # <<>> THEN <<K("boxes")>> ELSE <<>>)
         \o (IF line_width # <<>> THEN <<K("line_width")>> ELSE <<>>),
         image_path \o boxes \o line_width)

DrawToolUses ==
    { ToolUse(JStr(name), params, FALSE) :
        name \in { DrawName, K("wrong_tool_name") },
        params \in { DrawParams(i, b, w) :
                       i \in ImagePathFields, b \in BoxesFields, w \in LineWidthFields }
                   \cup { JArr(<<JNum(5)>>) } }

DrawInit ==
    /\ draw_input \in DrawToolUses
    /\ draw_output = NoDraw
    /\ pc = "draw"
    /\ chat_history = <<>>
    /\ message_parts = <<>>
    /\ system_prompt = <<>>
    /\ conversation_history = <<>>
    /\ logger = NewLogger
    /\ files = <<>>
    /\ messages = <<>>
    /\ max_iterations = 0
    /\ iteration = 0
    /\ llm_error = NoError
    /\ response_text = <<>>
    /\ parsed = NotParsed
    /\ assistant_response = NoResponse
    /\ tool_index = 0
    /\ tool_results = <<>>
    /\ result = NoOutcome
    /\ model_calls = 0
    /\ responses = <<>>
    /\ executed = <<>>
    /\ entry_history = <<>>
    /\ runs = 0
    /\ total_calls = 0
    /\ reply = NoSource

DrawUnchanged ==
    UNCHANGED << system_prompt, conversation_history, logger, files, messages,
                 max_iterations, iteration, llm_error, response_text, parsed,
                 assistant_response, tool_index, tool_results, result, model_calls,
                 responses, executed, entry_history, runs, total_calls, reply,
                 chat_history, message_parts, draw_input >>

\* execute(draw_input)
DrawExecute(saved) ==
    /\ pc = "draw"
    /\ draw_output' = DrawExecuteOutcome(draw_input, saved)
    /\ pc' = "drawn"
    /\ DrawUnchanged

\* _parse_boxes(boxes) on the boxes parameter of draw_input
ParseBoxes ==
    /\ pc = "draw"
    /\ IsDict(draw_input.params)
    /\ HasKey(draw_input.params, K("boxes"))
    /\ draw_output' = Drawn(_parse_boxes(Get(draw_input.params, K("boxes"))), {})
    /\ pc' = "boxes"
    /\ DrawUnchanged

DrawNext ==
    \/ \E saved \in BOOLEAN : DrawExecute(saved)
    \/ ParseBoxes

DrawSpec == DrawInit /\ [][DrawNext]_vars

(***************************************************************************)
(* Properties                                                              *)
(***************************************************************************)
\* a run call has ended and nothing was called since
RunEnded == pc = "idle" /\ result.kind # "none"

\* a run call is in progress or has ended
RunCalled == pc # "idle" \/ result.kind # "none"

NoUserRole(msgs) == \A i \in 1..Len(msgs) : msgs[i].role # USER

Last(seq) == seq[Len(seq)]

\* what this run call has appended after newMessages
AddedByRun ==
    SubSeq(conversation_history, Len(entry_history) + Len(messages) + 1,
           Len(conversation_history))

\* the history starts with what it was at the call, then newMessages
StartsWithInput ==
    /\ Len(conversation_history) >= Len(entry_history) + Len(messages)
    /\ SubSeq(conversation_history, 1, Len(entry_history) + Len(messages))
         = entry_history \o messages

IsToolResultMessage(m) ==
    m.role = ASSISTANT /\ m.content # <<>> /\ m.content[1] = "Tool execution results:"

\* every model call of this run was answered, and with tool use
AllToolUse ==
    /\ responses # <<>>
    /\ Len(responses) = model_calls
    /\ \A i \in 1..Len(responses) : is_tool_use(responses[i])

\* the execute_tool calls of this run: turn, position in the turn, tool use
ExecutedCalls ==
    [n \in 1..Len(executed) |->
        [iteration |-> executed[n].iteration, index |-> executed[n].index,
         tool_use |-> executed[n].tool_use]]

\* the invocations the responses from turn i on ask for, in order
RECURSIVE Requested(_, _)
Requested(rs, i) ==
    IF i > Len(rs) THEN <<>>
    ELSE [j \in 1..Len(rs[i].tool_uses) |->
            [iteration |-> i, index |-> j, tool_use |-> rs[i].tool_uses[j]]]
         \o Requested(rs, i + 1)

\* C1: every call to run ends by returning one Message, whatever the model
\* replies and whatever the tools do; no call ends by an exception.
RunReturnsOneMessage ==
    /\ result.kind # "raise"
    /\ RunEnded => result.message.role = ASSISTANT

\* C2: for every raw text _parse_response returns an AssistantResponse
\* without raising, Text or tool use, and tool use holds an invocation.
ParseIsTotal ==
    pc = "parsed" =>
        /\ ~parsed.raised
        /\ parsed.response.response_type \in {"text", "tool_use"}
        /\ is_tool_use(parsed.response) => parsed.response.tool_uses # <<>>

\* C3: every run call that is in progress eventually returns, and a run
\* never makes more than max_iterations model calls.
RunEventuallyReturns ==
    /\ \A n \in 1..MaxRuns :
          (runs = n /\ pc # "idle") ~> (runs = n /\ pc = "idle" /\ result.kind = "return")
    /\ [](model_calls <= max_iterations)

\* C4: a run with max_iterations = N >= 1 whose model calls were all
\* answered with tool use made N model calls, appended N tool-result messages
\* and then the cap-reached message, and returned that message.
CapAfterToolUseOnly ==
    (RunEnded /\ max_iterations >= 1 /\ AllToolUse) =>
        /\ model_calls = max_iterations
        /\ result = Return(CapReached(max_iterations))
        /\ result.message.role = ASSISTANT
        /\ StartsWithInput
        /\ Len(AddedByRun) = max_iterations + 1
        /\ \A i \in 1..max_iterations : IsToolResultMessage(AddedByRun[i])
        /\ AddedByRun[max_iterations + 1] = CapReached(max_iterations)

CapAfterTwoToolTurns ==
    RunEnded /\ max_iterations = 2 /\ AllToolUse /\ model_calls = 2

\* C5: a run whose first k-1 model calls were answered with tool use and
\* whose k-th with Text made k model calls, executed every requested
\* invocation once, appended k-1 tool-result messages and then the text
\* message, and returned the text message of turn k.
TextAfterToolTurns ==
    ( /\ RunEnded
      /\ responses # <<>>
      /\ Len(responses) = model_calls
      /\ is_text(responses[Len(responses)])
      /\ \A i \in 1..(Len(responses) - 1) : is_tool_use(responses[i]) ) =>
        LET k == Len(responses)
        IN  /\ k <= max_iterations
            /\ ExecutedCalls = Requested(responses, 1)
            /\ StartsWithInput
            /\ Len(AddedByRun) = k
            /\ \A i \in 1..(k - 1) : IsToolResultMessage(AddedByRun[i])
            /\ AddedByRun[k] = Message(ASSISTANT, responses[k].text)
            /\ result = Return(AddedByRun[k])

TextAtSecondTurn ==
    /\ RunEnded
    /\ model_calls = 2
    /\ Len(responses) = 2
    /\ is_tool_use(responses[1])
    /\ is_text(responses[2])
    /\ ~llm_error.raised
    /\ Len(executed) = 2

\* C6: once a reply has parsed as Text the run has ended: the Assistant
\* message with that text is the one message appended for it, it is the last
\* of history and the value returned, and no model call and no tool
\* execution of this run comes after it.
TextEndsRun ==
    (~parsed.raised /\ is_text(parsed.response)) =>
        /\ pc = "idle"
        /\ result = Return(Message(ASSISTANT, parsed.response.text))
        /\ conversation_history # <<>>
        /\ Last(conversation_history) = result.message
        /\ StartsWithInput
        /\ Len(AddedByRun) = model_calls
        /\ \A i \in 1..(Len(AddedByRun) - 1) : IsToolResultMessage(AddedByRun[i])
        /\ Len(responses) = model_calls
        /\ Last(responses) = parsed.response
        /\ \A n \in 1..Len(executed) : executed[n].iteration < model_calls

TextReplyReturned ==
    /\ ~parsed.raised
    /\ is_text(parsed.response)
    /\ response_text = RawTextHi
    /\ model_calls = 2
    /\ executed # <<>>

\* C7: once a model call has failed the run has ended: the message made of
\* 'Error calling LLM API: ' and the failure's text is appended and returned,
\* the model is not called again and no tool is executed after the failure.
ModelFailureEndsRun ==
    llm_error.raised =>
        /\ pc = "idle"
        /\ result = Return(Message(ASSISTANT, K("Error calling LLM API: ") \o llm_error.text))
        /\ conversation_history # <<>>
        /\ Last(conversation_history) = result.message
        /\ StartsWithInput
        /\ Len(AddedByRun) = model_calls
        /\ Len(responses) = model_calls
        /\ \A n \in 1..Len(executed) : executed[n].iteration < model_calls

ModelFailedAtSecondTurn ==
    llm_error.raised /\ model_calls = 2 /\ executed # <<>>

\* C8: a run called with no User message among newMessages makes no model
\* call, executes no tool and returns the fixed message.
RejectsWithoutUser ==
    (RunCalled /\ NoUserRole(messages)) =>
        /\ pc = "idle"
        /\ model_calls = 0
        /\ executed = <<>>
        /\ result = Return(Message(ASSISTANT, K("I didn't receive any user messages.")))

RejectedSystemOnly ==
    RunCalled /\ messages # <<>> /\ NoUserRole(messages) /\ result.kind = "return"

\* C9: a run rejected for want of a User message leaves the history as it
\* was when run was called.
RejectionKeepsHistory ==
    (RunEnded /\ NoUserRole(messages)) => conversation_history = entry_history

\* C10: in every tool-use turn the invocations are executed in the order of
\* the response, each once, also after a failed one: the executions of a turn
\* are a prefix of its invocations while the turn runs and all of them once
\* it is over.
InvocationsInOrder ==
    /\ \A n \in 1..(Len(executed) - 1) : executed[n].iteration <= executed[n + 1].iteration
    /\ \A it \in 1..Len(responses) :
          is_tool_use(responses[it]) =>
            LET done == SelectSeq(executed, LAMBDA e : e.iteration = it)
                uses == responses[it].tool_uses
            IN  /\ Len(done) <= Len(uses)
                /\ \A n \in 1..Len(done) : done[n].tool_use = uses[n] /\ done[n].index = n
                /\ (it < model_calls \/ pc # "tools") => Len(done) = Len(uses)

SiblingRunsAfterFailure ==
    /\ pc # "tools"
    /\ \E n \in 1..(Len(executed) - 1) :
          /\ executed[n].index = 1
          /\ ~executed[n].ok
          /\ executed[n].tool_use.name = JStr(K("draw"))
          /\ executed[n + 1].iteration = executed[n].iteration
          /\ executed[n + 1].index = 2

\* the turn of model call it is over: its tool uses, if any, were all run
TurnOver(it) == model_calls > it \/ pc # "tools"

\* sub occurs in seq as a contiguous part
Contains(seq, sub) ==
    \E i \in 1..(Len(seq) - Len(sub) + 1) : SubSeq(seq, i, i + Len(sub) - 1) = sub

\* the entry of a failed execution: '<toolName>: Error - <errorMessage>'
FailureEntry(e) ==
    PyStr(e.tool_use.name) \o <<":", SP, "Error", SP, "-", SP>> \o e.error

\* the entry of a failed execution is in tool_results while its turn runs
\* and in the tool-result message of its turn afterwards
FailureIsReported(e) ==
    IF TurnOver(e.iteration)
    THEN /\ Len(AddedByRun) >= e.iteration
         /\ IsToolResultMessage(AddedByRun[e.iteration])
         /\ Contains(AddedByRun[e.iteration].content, FailureEntry(e))
    ELSE /\ Len(tool_results) >= e.index
         /\ tool_results[e.index] = FailureEntry(e)

\* after the turn of e the model is called again while iterations remain
LoopGoesOn(e) ==
    (TurnOver(e.iteration) /\ e.iteration < max_iterations) =>
        (model_calls > e.iteration \/ pc = "loop")

\* no exception of a tool leaves run: one that does comes from the parser
OnlyParserRaises == result.kind = "raise" => (parsed.raised /\ result.error = parsed.error)

\* C11: an exception raised by the execute of a registered tool becomes a
\* failure entry with the tool name and the error message; it does not leave
\* run, and the loop goes on to the next model call.
ToolExceptionBecomesEntry ==
    /\ OnlyParserRaises
    /\ \A n \in 1..Len(executed) :
          (~executed[n].ok /\ FindTool(executed[n].tool_use) # 0) =>
              /\ executed[n].error # <<>>
              /\ FailureIsReported(executed[n])
              /\ LoopGoesOn(executed[n])

StubFailedAndModelCalledAgain ==
    \E n \in 1..Len(executed) :
        /\ ~executed[n].ok
        /\ executed[n].tool_use.name = JStr(K("stub"))
        /\ executed[n].error = NoFunctionError(Tools[2])
        /\ model_calls > executed[n].iteration

EntryOf(e) ==
    IF e.ok THEN PyStr(e.tool_use.name) \o <<":", SP>> \o _format_tool_result(e.result)
    ELSE FailureEntry(e)

\* the entries of the executions es, each after the first on a new line
RECURSIVE EntriesOf(_)
EntriesOf(es) ==
    IF es = <<>> THEN <<>>
    ELSE EntryOf(Head(es)) \o (IF Len(es) > 1 THEN <<NL>> ELSE <<>>) \o EntriesOf(Tail(es))

\* C13: the tool-result message of a turn is one Assistant message: the
\* header, then one entry per invocation of the turn in invocation order,
\* joined by newlines, '<toolName>: <formatted result>' for a success and
\* '<toolName>: Error - <errorMessage>' for a failure.
ToolResultMessageShape ==
    \A it \in 1..Len(responses) :
        (is_tool_use(responses[it]) /\ TurnOver(it)) =>
            LET done == SelectSeq(executed, LAMBDA e : e.iteration = it)
            IN  /\ Len(done) = Len(responses[it].tool_uses)
                /\ \A n \in 1..Len(done) : done[n].tool_use = responses[it].tool_uses[n]
                /\ Len(AddedByRun) >= it
                /\ AddedByRun[it]
                     = Message(ASSISTANT,
                               <<"Tool execution results:", NL>> \o EntriesOf(done))

SuccessAndFailureInOneMessage ==
    /\ model_calls = 1
    /\ TurnOver(1)
    /\ Len(executed) = 2
    /\ executed[1].ok
    /\ executed[1].result.has_to_dict
    /\ ~executed[2].ok
    /\ Len(AddedByRun) = 1

IsPrefix(s, t) == Len(s) <= Len(t) /\ SubSeq(t, 1, Len(s)) = s

\* C14: every step other than a reset leaves the history as it was or with
\* messages appended at its end.
HistoryAppendOnly ==
    [][ \/ IsPrefix(conversation_history, conversation_history')
        \/ \E written1, written2 \in BOOLEAN : Reset(written1, written2) ]_vars

HistoryGrownOverTwoRuns ==
    /\ RunEnded
    /\ runs = 2
    /\ Len(entry_history) > Len(InitialHistory(system_prompt))
    /\ IsPrefix(entry_history, conversation_history)
    /\ Len(conversation_history) > Len(entry_history) + Len(messages)

\* C15: a run call that passed the user-message check ends by returning
\* either the message of a Text response or the cap-reached message, one of
\* the two and never the 'Unknown response type.' message.
EndsByTextOrCap ==
    (RunEnded /\ ~NoUserRole(messages)) =>
        /\ result.kind = "return"
        /\ result.message # Message(ASSISTANT, K("Unknown response type."))
        /\ ( /\ responses # <<>>
             /\ is_text(Last(responses))
             /\ result.message = Message(ASSISTANT, Last(responses).text) )
           # ( /\ \A i \in 1..Len(responses) : is_tool_use(responses[i])
               /\ model_calls = max_iterations
               /\ result.message = CapReached(max_iterations) )

\* the raw text was written from a JSON object and has been parsed
ParsedFromObject == pc = "parsed" /\ reply.wrap # "raw"

Discriminators == { JStr(K("text")), JStr(K("tool_use")), JStr(K("tool")) }

\* a value that is neither null nor an empty string, list or mapping
NonEmpty(v) ==
    /\ v # JNull
    /\ ~(v.t = "str" /\ v.s = <<>>)
    /\ ~(v.t \in {"arr", "obj"} /\ v.items = <<>>)

\* the discriminator of the object o: the value of key type, or of key
\* response_type when key type is absent or null
DiscriminatorOf(o) ==
    IF Get(o, K("type")) # JNull THEN Get(o, K("type")) ELSE Get(o, K("response_type"))

DiscriminatorIsOther(o) == DiscriminatorOf(o) \notin Discriminators

\* C16: a raw text that holds no JSON object, and one written from an object
\* whose discriminator is none of "text", "tool_use" and "tool" or is
\* absent, parses to Text of the whole trimmed raw text.
FallsBackToTrimmedRaw ==
    /\ (pc = "parsed" /\ response_text \in NonObjectTexts) =>
           parsed = Returned(text_response(Strip(response_text)))
    /\ (ParsedFromObject /\ DiscriminatorIsOther(reply.object)) =>
           parsed = Returned(text_response(Strip(response_text)))

\* the discriminator of the object o is "text": under key type, or under
\* key response_type when key type is absent or null
DiscriminatorIsText(o) ==
    \/ Get(o, K("type")) = JStr(K("text"))
    \/ Get(o, K("type")) = JNull /\ Get(o, K("response_type")) = JStr(K("text"))

\* the field text of o as a string, the empty string when absent
TextFieldAsString(o) == IF HasKey(o, K("text")) THEN PyStr(Get(o, K("text"))) ELSE <<>>

\* C17: a raw text written from an object with discriminator "text" parses
\* to Text of the field text as a string, trimmed, and of the empty string
\* when the field is absent.
TextReplyGivesField ==
    (ParsedFromObject /\ DiscriminatorIsText(reply.object)) =>
        parsed = Returned(text_response(Strip(TextFieldAsString(reply.object))))

TextFieldAbsentParsed ==
    /\ pc = "parsed"
    /\ reply = [wrap |-> "bare", object |-> TextObject("type", <<>>)]
    /\ parsed.response = text_response(<<>>)

FirstNonEmpty(a, b, default) ==
    IF NonEmpty(a) THEN a ELSE IF NonEmpty(b) THEN b ELSE default

DiscriminatorIsTool(o) == Get(o, K("type")) \in { JStr(K("tool_use")), JStr(K("tool")) }

\* the entries of o: tool_uses, or tool_calls when tool_uses is null or empty
EntriesOfReply(o) ==
    FirstNonEmpty(Get(o, K("tool_uses")), Get(o, K("tool_calls")), JArr(<<>>))

\* an entry that is an object with a name
NamedEntry(entry) == entry.t = "obj" /\ NonEmpty(Get(entry, K("name")))

InvocationOf(entry) ==
    [name |-> Get(entry, K("name")),
     params |-> FirstNonEmpty(Get(entry, K("params")), Get(entry, K("arguments")),
                              JObj(<<>>, <<>>)),
     partial |-> Get(entry, K("partial")) = JBool(TRUE)]

\* the invocations of the object o, whose entries are a list
InvocationsOf(o) ==
    LET named == SelectSeq(EntriesOfReply(o).items, NamedEntry)
    IN  [i \in 1..Len(named) |-> InvocationOf(named[i])]

HasEntryList(o) == DiscriminatorIsTool(o) /\ EntriesOfReply(o).t = "arr"

\* C18: a raw text written from an object with discriminator "tool_use" or
\* "tool" whose entries, read from tool_uses or else from tool_calls, are a
\* list with a named object entry parses to ToolUse of those entries in
\* order, each with its name, its params from params or else arguments and
\* its partial flag.
ToolReplyGivesInvocations ==
    ( /\ ParsedFromObject
      /\ HasEntryList(reply.object)
      /\ InvocationsOf(reply.object) # <<>> ) =>
        parsed = Returned(tool_use_response(InvocationsOf(reply.object)))

ToolCallsReadWhenToolUsesNull ==
    /\ pc = "parsed"
    /\ reply = [wrap |-> "bare",
                object |-> EntriesObject("tool", <<JNull>>, <<JArr(<<BareEntry, ArgsEntry>>)>>)]
    /\ Len(parsed.response.tool_uses) = 2
    /\ parsed.response.tool_uses[2].partial

\* C19: of the entries of a tool-use reply those that are no objects or have
\* no name are dropped and the named ones kept in order; with none left the
\* result is Text of the trimmed raw text, never ToolUse of an empty list.
UnnamedEntriesDropped ==
    (ParsedFromObject /\ HasEntryList(reply.object)) =>
        LET named == SelectSeq(EntriesOfReply(reply.object).items, NamedEntry)
        IN  /\ ~parsed.raised
            /\ is_tool_use(parsed.response) => parsed.response.tool_uses # <<>>
            /\ IF named = <<>>
               THEN parsed.response = text_response(Strip(response_text))
               ELSE /\ is_tool_use(parsed.response)
                    /\ [i \in 1..Len(parsed.response.tool_uses) |->
                          parsed.response.tool_uses[i].name]
                         = [i \in 1..Len(named) |-> Get(named[i], K("name"))]

MixedEntriesParsed ==
    /\ pc = "parsed"
    /\ reply.wrap = "bare"
    /\ Get(reply.object, K("tool_uses"))
         = JArr(<<JNum(5), DrawEntry, JStr(K("draw")), NullNameEntry, ArgsEntry>>)
    /\ Len(parsed.response.tool_uses) = 2

\* C20: a raw text that is prose around a JSON object parses as the object
\* does by the rules for a whole-text object, the trimmed raw text being the
\* whole text: the result is that of the bare object wherever the bare object
\* does not fall back to its raw text.
ProseParsesAsBareObject ==
    (pc = "parsed" /\ reply.wrap = "prose") =>
        /\ parsed = ParseDict(reply.object, Strip(response_text))
        /\ LET bare == _parse_response(JsonDumps(reply.object, 0))
           IN  ( \/ bare.raised
                 \/ is_tool_use(bare.response)
                 \/ DiscriminatorIsText(reply.object) ) => parsed = bare

ProseAroundToolReplyParsed ==
    /\ pc = "parsed"
    /\ reply.wrap = "prose"
    /\ Get(reply.object, K("tool_uses")) = JArr(<<DrawEntry>>)
    /\ Get(reply.object, K("type")) = JStr(K("tool_use"))
    /\ is_tool_use(parsed.response)

\* C21: a raw text that is valid JSON of another kind than an object, an
\* array around a reply object, goes on to the brace search, and the reply
\* object embedded in it is interpreted.
ArrayAroundObjectIsSearched ==
    (pc = "parsed" /\ response_text \in ArrayTexts) =>
        parsed = ParseDict(try_load_json(BraceSearch(response_text).group).val,
                           Strip(response_text))

\* the result for the object o when d is its discriminator
ParsedBy(d, o, stripped) ==
    IF d = JStr(K("text"))
    THEN Returned(text_response(Strip(TextFieldAsString(o))))
    ELSE IF d \in { JStr(K("tool_use")), JStr(K("tool")) }
    THEN ParseToolUse(o, stripped)
    ELSE Returned(text_response(stripped))

\* C22: the discriminator is the value of key type whenever that key is
\* present and not null, an empty string, false and 0 included; key
\* response_type is consulted only when key type is absent or null.
TypeWinsWhenNotNull ==
    ParsedFromObject =>
        parsed = ParsedBy(DiscriminatorOf(reply.object), reply.object, Strip(response_text))

\* the span from the first "{" of the text t to its last "}", <<>> if none
GreedySpan(t) ==
    LET opens == { i \in 1..Len(t) : t[i] = "{" }
        closes == { i \in 1..Len(t) : t[i] = "}" }
    IN  IF opens = {} \/ closes = {} THEN <<>>
        ELSE SubSeq(t, CHOOSE i \in opens : \A j \in opens : i <= j,
                       CHOOSE i \in closes : \A j \in closes : j <= i)

\* the text t holds a shorter brace-delimited span that is a JSON object
HasShorterObject(t) ==
    \E i, j \in 1..Len(t) :
        /\ i < j
        /\ SubSeq(t, i, j) # GreedySpan(t)
        /\ t[i] = "{"
        /\ t[j] = "}"
        /\ try_load_json(SubSeq(t, i, j)).ok

ResetStep == pc = "idle" /\ pc' = "idle" /\ runs' = runs

\* C24: reset saves the events of the current conversation, the history of
\* before the reset among them, under the conversation's id whenever a file
\* write goes through, and leaves the history with the System message of
\* the configured prompt alone, or empty without a prompt, and the logger
\* without a current conversation; the conversation a later run starts has a
\* new id, under which no file was written.
ResetSavesThenClears ==
    [][ /\ ResetStep =>
              /\ \E written1, written2 \in BOOLEAN : Reset(written1, written2)
              /\ conversation_history' = InitialHistory(system_prompt)
              /\ logger'.current_conversation_id = 0
              /\ ( /\ logger.current_conversation_id # 0
                    /\ files' = save_conversation(logger, files, TRUE) ) =>
                      /\ logger.current_conversation_id \in DOMAIN files'
                      /\ files'[logger.current_conversation_id]
                            = ConversationData(logger)
                      /\ files'[logger.current_conversation_id].messages
                            = conversation_history
        /\ logger'.current_conversation_id # 0 =>
              logger'.current_conversation_id \notin DOMAIN files' ]_vars

SecondConversationAfterReset ==
    /\ pc = "idle"
    /\ runs = 2
    /\ 1 \in DOMAIN files
    /\ Len(files[1].messages) > 1
    /\ files[1].responses # <<>>
    /\ logger.current_conversation_id = 2
    /\ Len(conversation_history) = Len(InitialHistory(system_prompt)) + 2

\* the tools of the catalog the invocation tool_use names
Descriptors(tool_use) == { i \in 1..Len(Tools) : NameMatches(Tools[i], tool_use) }

\* C25: the names of the agent's catalog are unique, two tools of one name
\* not being accepted, and no invocation that is executed names more than
\* one tool of the catalog.
ToolNamesUnique ==
    /\ \A i, j \in 1..Len(Tools) : Tools[i].name = Tools[j].name => i = j
    /\ \A n \in 1..Len(executed) : Cardinality(Descriptors(executed[n].tool_use)) <= 1

\* the invocation u with the other value of its flag partial
PartialFlipped(u) == [u EXCEPT !.partial = ~u.partial]

\* the entry of the invocation u that ended with outcome o
OutcomeLine(u, o) ==
    IF o.ok THEN SuccessLine(u, o.result) ELSE ErrorLine(u, o.error)

\* C26: whatever an execution does for an invocation it does for the
\* invocation that differs in the flag partial alone: the same tool is
\* called, the same outcomes are possible, the same entry is added to the
\* results, and the same tool-result message is appended to the history.
PartialHasNoInfluence ==
    [][ ExecuteTool =>
          LET u == assistant_response.tool_uses[tool_index]
              v == PartialFlipped(u)
              done == Last(executed')
          IN  /\ FindTool(v) = FindTool(u)
              /\ execute_tool(v) = execute_tool(u)
              /\ \E o \in execute_tool(v) :
                    /\ o.ok = done.ok
                    /\ o.result = done.result
                    /\ o.error = done.error
                    /\ tool_results' = Append(tool_results, OutcomeLine(v, o))
                    /\ pc' # "tools" =>
                          conversation_history'[Len(conversation_history) + 1]
                            = ToolResultMessage(Append(tool_results, OutcomeLine(v, o)))
      ]_vars

PartialInvocationExecuted ==
    /\ RunEnded
    /\ \E n \in 1..Len(executed) :
          /\ executed[n].tool_use.partial
          /\ executed[n].ok
          /\ executed[n].result.has_to_dict
    /\ \E n \in 1..Len(executed) : ~executed[n].tool_use.partial

\* the executions of the turn in progress
ExecutedThisTurn == SelectSeq(executed, LAMBDA x : x.iteration = iteration)

\* C23: an exception of a logger call does not end run, and the entries of
\* the tool results are those of a run whose logger calls succeed, one for
\* each invocation executed.
SinkFailureDoesNotAbort ==
    /\ result.kind = "raise" => result.error \notin SinkErrors
    /\ pc = "tools" =>
          tool_results = [n \in 1..Len(ExecutedThisTurn) |->
                             OutcomeLine(ExecutedThisTurn[n].tool_use, ExecutedThisTurn[n])]

\* C28: a model call that does not return does not keep run from ending:
\* run returns a message in the end.
HungModelCallEnds == (pc = "waiting") ~> (pc = "idle" /\ result.kind = "return")

\* the tool-result message of the turn it
ToolMessageOfTurn(it) ==
    Message(ASSISTANT,
            <<"Tool execution results:", NL>>
                \o EntriesOf(SelectSeq(executed, LAMBDA x : x.iteration = it)))

\* C29: every model call of a run is given the whole history of that
\* moment: what the history was at the call of run, the new messages, and
\* the tool-result message of each turn before, that of the turn just over
\* being the last element, and nothing else.
ModelSeesWholeHistory ==
    pc = "loop" =>
        /\ model_calls = iteration
        /\ ModelCallMessages
             = entry_history \o messages
                 \o [it \in 1..model_calls |-> ToolMessageOfTurn(it)]
        /\ model_calls > 0 => Last(ModelCallMessages) = ToolMessageOfTurn(model_calls)

SecondCallAfterToolResults ==
    /\ pc = "loop"
    /\ model_calls = 1
    /\ Len(executed) = 2
    /\ IsToolResultMessage(Last(ModelCallMessages))
    /\ Len(ModelCallMessages) = Len(entry_history) + Len(messages) + 1

\* a run with max_iterations = 1 has ended whose one model call gave a reply
\* that was parsed
LoopOfOneEnded ==
    /\ RunEnded
    /\ max_iterations = 1
    /\ model_calls = 1
    /\ ~llm_error.raised
    /\ Len(responses) = 1

\* the single-shot run on the history, the messages, the parsed reply and
\* the tool outcomes of this run
SingleShot == SingleShotRun(entry_history, messages, responses[1], executed)

\* a result the loop formats as JSON
Structured(r) == r.has_to_dict \/ r.value.t \in {"obj", "arr"}

\* C27, as claimed: with max_iterations = 1 run returns the message and
\* leaves the history of the single-shot run on the same parsed reply and the
\* same tools, for a Text reply and a tool-use reply alike.
LoopOfOneIsSingleShot ==
    LoopOfOneEnded =>
        /\ result.message = SingleShot.message
        /\ conversation_history = SingleShot.history

\* C27, amended: with max_iterations = 1 and a Text reply run returns the
\* message and leaves the history of the single-shot run.  With a tool-use
\* reply the single-shot run returns its tool-result message, the last
\* element of its history, while run appends its tool-result message, then
\* appends and returns the cap-reached message; the two tool-result messages
\* are equal unless a tool returned a structured result.
LoopOfOneAgainstSingleShot ==
    LoopOfOneEnded =>
        IF is_text(responses[1])
        THEN /\ result.message = SingleShot.message
             /\ conversation_history = SingleShot.history
        ELSE /\ result.kind = "return"
             /\ result.message.content[1] = "Maximum tool execution iterations ("
             /\ result.message # SingleShot.message
             /\ IsToolResultMessage(SingleShot.message)
             /\ Last(SingleShot.history) = SingleShot.message
             /\ Len(conversation_history) = Len(SingleShot.history) + 1
             /\ Last(conversation_history) = result.message
             /\ SubSeq(conversation_history, 1, Len(conversation_history) - 2)
                   = SubSeq(SingleShot.history, 1, Len(SingleShot.history) - 1)
             /\ (conversation_history[Len(conversation_history) - 1] = SingleShot.message)
                   <=> \A n \in 1..Len(executed) :
                          executed[n].ok => ~Structured(executed[n].result)

ToolReplyInLoopOfOne ==
    /\ LoopOfOneEnded
    /\ is_tool_use(responses[1])
    /\ Len(executed) = 2
    /\ executed[1].ok
    /\ Structured(executed[1].result)
    /\ SingleShot.message.content # conversation_history[Len(conversation_history) - 1].content

\* C33: whenever run has returned, by the rejection, a Text reply or the
\* cap, a conversation is current in the logger and its messages are the
\* history, message for message, whatever run and reset calls came before.
LoggedMessagesAreHistory ==
    (RunEnded /\ result.kind = "return") =>
        /\ logger.current_conversation_id # 0
        /\ logger.messages = conversation_history

SecondRunLoggedAfterReset ==
    /\ RunEnded
    /\ result.kind = "return"
    /\ runs = 2
    /\ logger.current_conversation_id = 2
    /\ system_prompt # <<>>
    /\ Len(logger.messages) = 3

\* C36: a run called with max_iterations of zero or less and a User message
\* calls no model and executes no tool; it appends newMessages and then the
\* cap-reached message to the history and returns the cap-reached message.
NoIterationsGivesCap ==
    (RunCalled /\ max_iterations <= 0 /\ HasUserMessage(messages)) =>
        /\ pc = "idle"
        /\ model_calls = 0
        /\ executed = <<>>
        /\ result = Return(CapReached(max_iterations))
        /\ conversation_history
             = entry_history \o messages \o << CapReached(max_iterations) >>

NegativeCapReturned ==
    /\ RunEnded
    /\ max_iterations < 0
    /\ HasUserMessage(messages)
    /\ runs = 2
    /\ entry_history # <<>>

\* C35: an agent constructed with a system prompt has the System message
\* with that prompt as the first element of its history in every state, and
\* every message a run adds after newMessages has the Assistant role.
SystemMessageStaysFirst ==
    /\ system_prompt # <<>> =>
          /\ conversation_history # <<>>
          /\ conversation_history[1] = Message(SYSTEM, system_prompt)
    /\ RunCalled =>
          /\ StartsWithInput
          /\ \A i \in 1..Len(AddedByRun) : AddedByRun[i].role = ASSISTANT

SystemFirstAfterResetAndToolTurn ==
    /\ RunEnded
    /\ system_prompt # <<>>
    /\ logger.current_conversation_id = 2
    /\ Len(AddedByRun) = 2
    /\ messages # <<>>

\* a step of run that calls the model
ModelCalled == model_calls' = model_calls + 1

\* a step of run that executes an invocation
InvocationExecuted == Len(executed') = Len(executed) + 1

\* an entry of the tool results of the form '<toolName>: Error - <message>'
IsErrorEntry(line, tool_use) ==
    IsPrefix(PyStr(tool_use.name) \o <<":", SP, "Error", SP, "-", SP>>, line)

\* the events of the logger are kept by the step, new ones at the end
EventsKept ==
    /\ IsPrefix(logger.responses, logger'.responses)
    /\ IsPrefix(logger.tool_executions, logger'.tool_executions)

\* C34: every model call of a run logs one response event, and no
\* tool-execution event; every executed invocation logs one tool-execution
\* event, after the response event of its iteration and at the end of the
\* events logged so far, with success true exactly when its entry of the
\* tool results is not an 'Error -' entry; and no step other than a reset
\* alters or removes an event that is logged.
EventsLoggedOncePerStep ==
    [][ /\ ModelCalled =>
              /\ Len(logger'.responses) = Len(logger.responses) + 1
              /\ logger'.tool_executions = logger.tool_executions
        /\ InvocationExecuted =>
              /\ Len(logger'.tool_executions) = Len(logger.tool_executions) + 1
              /\ logger'.responses = logger.responses
              /\ logger.responses # <<>>
              /\ Last(logger.responses) = assistant_response
              /\ Last(logger'.tool_executions).tool_name = Last(executed').tool_use.name
              /\ Last(logger'.tool_executions).success
                   = ~IsErrorEntry(Last(tool_results'), Last(executed').tool_use)
        /\ ResetStep \/ EventsKept ]_vars

\* the names of the registered tools
Registered(name) == \E i \in 1..Len(Tools) : Tools[i].name = name

\* a name that becomes a registered one once trimmed and put in lower case
NearRegistered(name) == ~Registered(name) /\ Registered(Lower(Strip(name)))

\* the execution e ended as a tool that is not found, no tool being called
EndedNotFound(e) ==
    /\ ~e.ok
    /\ e.error = K("Tool '") \o e.tool_use.name.s \o K("' not found in agent's tool list")

\* C31: an invocation is resolved by exact equality of names: one whose
\* name is not a registered name, a variant in letter case or surrounding
\* whitespace included, is reported as not found and no tool is executed,
\* and one whose name is registered is given to that tool.
ToolsResolvedByExactName ==
    \A n \in 1..Len(executed) :
        LET e == executed[n]
        IN  IF Registered(e.tool_use.name.s)
            THEN ~EndedNotFound(e)
            ELSE EndedNotFound(e) /\ FailureIsReported(e)

CaseAndSpaceVariantsNotFound ==
    /\ RunEnded
    /\ Len(executed) = 2
    /\ executed[1].tool_use.name.s = K("Draw")
    /\ executed[2].tool_use.name.s = <<"draw", SP>>
    /\ NearRegistered(executed[1].tool_use.name.s)
    /\ NearRegistered(executed[2].tool_use.name.s)

\* the text after '<toolName>: ' in the entry of the formatted result
FormattedText ==
    SubSeq(tool_results[1], Len(PyStr(executed[1].tool_use.name)) + 3,
           Len(tool_results[1]))

\* text is JSON for the value v, and spread over indented lines when v is a
\* list or dict that is not empty
IsPrettyJsonOf(text, v) ==
    /\ ReadValue(text, 1) = JOk(v, Len(text) + 1)
    /\ v.items # <<>> => SubSeq(text, 2, 4) = <<NL, SP, SP>>

Without(seq, i) == SubSeq(seq, 1, i - 1) \o SubSeq(seq, i + 1, Len(seq))

\* C37: when the client has sent the prompt, the chat history the session
\* was started with holds every User and Assistant message but the one
\* whose content is the prompt, so that each is conveyed once.
PromptNotInChatHistory ==
    pc = "sent" =>
        chat_history = ChatHistory(Without(messages, PromptIndex(messages)))

\* the parameter k of the invocation u, null when u carries none
ParamOf(u, k) == IF IsDict(u.params) THEN Get(u.params, k) ELSE JNull

\* the checks of execute in the order claimed: whether check n fails for u
CheckFails(u, n) ==
    CASE n = 1 -> u.name # JStr(DrawName)
      [] n = 2 -> ~Truthy(ParamOf(u, K("image_path")))
      [] n = 3 -> ~Truthy(ParamOf(u, K("boxes")))
      [] n = 4 -> ParamOf(u, K("image_path")).s \notin LoadableImages
      [] OTHER -> \/ _parse_boxes(ParamOf(u, K("boxes"))).kind = "raise"
                  \/ _parse_boxes(ParamOf(u, K("boxes"))).value = <<>>

\* how the ValueError of check n begins
CheckErrors(n) ==
    CASE n = 1 -> { "Tool name mismatch: expected " }
      [] n = 2 -> { "image_path parameter is required" }
      [] n = 3 -> { "boxes parameter is required" }
      [] n = 4 -> { "Failed to load image from " }
      [] OTHER -> { "Failed to parse boxes: ", "No valid boxes found in the provided data" }

DrawChecks == 1..5

\* C38: when a check of execute fails, execute raises the ValueError of the
\* first check that fails, in the order tool name, image_path, boxes, image
\* loadable, boxes parseable with a valid box, and writes no file.
ValidatesInOrder ==
    pc = "drawn" =>
        \A n \in DrawChecks :
            (CheckFails(draw_input, n) /\ \A m \in 1..(n - 1) : ~CheckFails(draw_input, m)) =>
                /\ draw_output.outcome.kind = "raise"
                /\ draw_output.outcome.type = "ValueError"
                /\ draw_output.outcome.error[1] \in CheckErrors(n)
                /\ draw_output.written = {}

\* the box dicts of boxes_data, a list or a dict with a 'boxes' list
BoxEntries(data) == IF data.t = "arr" THEN data.items ELSE Get(data, K("boxes")).items

\* boxes_data is a list of box dicts or a BoundingBoxOutput-style dict, the
\* coordinates being numbers
IsBoxData(data) ==
    /\ data.t = "arr" \/ (IsDict(data) /\ Get(data, K("boxes")).t = "arr")
    /\ \A i \in 1..Len(BoxEntries(data)) :
          LET e == BoxEntries(data)[i]
          IN  /\ IsDict(e)
              /\ HasKey(e, K("xyxy")) =>
                    /\ Get(e, K("xyxy")).t = "arr"
                    /\ \A j \in 1..Len(Get(e, K("xyxy")).items) :
                          Get(e, K("xyxy")).items[j].t = "num"

\* the coordinates of the box dict e
Coordinates(e) ==
    [j \in 1..Len(Get(e, K("xyxy")).items) |-> Get(e, K("xyxy")).items[j].n]

\* C39: for a list of box dicts and for a BoundingBoxOutput-style dict with
\* numeric coordinates _parse_boxes returns one BoundingBox for each box that
\* has an 'xyxy' key, in input order and with its coordinates, and it raises
\* only for an input that is neither a list nor a dict with a 'boxes' key.
ParseBoxesKeepsEveryBox ==
    pc = "boxes" =>
        LET data == Get(draw_input.params, K("boxes"))
            out == draw_output.outcome
            kept == SelectSeq(BoxEntries(data), LAMBDA e : HasKey(e, K("xyxy")))
        IN  /\ out.kind = "raise" =>
                  ~(data.t = "arr" \/ (IsDict(data) /\ HasKey(data, K("boxes"))))
            /\ IsBoxData(data) =>
                  /\ out.kind = "return"
                  /\ Len(out.value) = Len(kept)
                  /\ \A i \in 1..Len(kept) : out.value[i].xyxy = Coordinates(kept[i])

====
